---- MODULE Spec2Model ----
(***************************************************************************)
(* A model of the ingestion pipeline of coding_agent_session_search: the   *)
(* four connectors of src/src/connectors (OpenCode, ChatGPT, Gemini,       *)
(* Codebuff) scanning a directory of session files, the orchestrator that  *)
(* feeds what they emit to the relational store and the full-text index,   *)
(* and the sessions list that reads the store while the indexer writes.    *)
(*                                                                         *)
(* Strings are sequences of character tokens (<<>> is the empty string),   *)
(* Option<T> is a sequence of length 0 (None) or 1 (Some), times are       *)
(* integers in milliseconds, one tick of the clock being one second.       *)
(***************************************************************************)
EXTENDS Integers, Sequences, FiniteSets, TLC

VARIABLES
  agent,        \* the connector whose data root is modelled
  clock,        \* seconds elapsed; every write to the data root takes one
  files,        \* the session files of the data root, in directory-walk order
  scanOut,      \* what the last direct call of Connector::scan returned
  fullScan,     \* what the last full scan (since_ts = None) of the same files returned
  store,        \* relational store: the committed conversation rows
  index,        \* full-text index: one document per message
  watermark,    \* Option<i64>: the agent's scan watermark
  run,          \* the orchestrator's run in progress
  lastRun,      \* summary of the last run that ended
  db,           \* the writer's open transaction on the store
  all_sessions, \* SessionsState::all_sessions of the sessions list
  observed,     \* what the last refresh read, with the complete sets of that moment
  watch,        \* the watch loop: notifications, debounce window, re-scans
  probe,        \* what the last call of Connector::detect did and returned
  ui,           \* SessionsState and the event loop of the sessions TUI
  md,           \* render_inline_markdown_line: the line and the loop's position in it
  proc          \* the process: what main printed and how it exited

fsVars == <<agent, clock, files>>
scanVars == <<scanOut, fullScan>>
pipeVars == <<store, index, watermark, run, lastRun>>
dbVars == <<db, all_sessions, observed>>
frontVars == <<probe, ui, md, proc>>
vars == <<agent, clock, files, scanOut, fullScan, store, index, watermark, run, lastRun, db, all_sessions,
          observed, watch, probe, ui, md, proc>>

(***************************************************************************)
(* Bounds of the model and constants of the program.                       *)
(***************************************************************************)
MaxClock == 2
MaxRuns == 2
MaxFiles == 2
MaxSetLen == 2
MaxTxns == 2
MaxMsgs == 2
MaxLine == 4
MaxQuery == 2
MsPerSec == 1000
CmdMax == 100
OutMax == 500
CbOutMax == 1000
SessionsLimit == 10000

(***************************************************************************)
(* Option, strings, sequences.                                             *)
(***************************************************************************)
None == <<>>
Some(x) == <<x>>
IsSome(o) == Len(o) = 1
Get(o) == o[1]
OrElse(o, p) == IF IsSome(o) THEN o ELSE p
UnwrapOr(o, d) == IF IsSome(o) THEN o[1] ELSE d

Range(s) == {s[i] : i \in 1..Len(s)}
MaxOf(a, b) == IF a >= b THEN a ELSE b

Agents == {"opencode", "chatgpt", "gemini", "codebuff"}
Paths == 1..MaxFiles
ExtIds == {"e1", "e2"}
\* the ids a new file can carry: a known one, or the first unused one
NewExtIds(fs) == IF fs = <<>> THEN {"e1"} ELSE ExtIds
Word(id) == <<ToString(id)>>
\* the directory a session file lies in; ChatGPT's unencrypted store is
\* conversations-{uuid}
PlainDir == <<"conversations", "-", "x">>

RECURSIVE Join(_, _)
Join(parts, sep) ==
  IF parts = <<>> THEN <<>>
  ELSE IF Len(parts) = 1 THEN parts[1]
  ELSE parts[1] \o sep \o Join(Tail(parts), sep)

IsWs(ch) == ch \in {" ", "\n"}
TrimIsEmpty(s) == \A i \in 1..Len(s) : IsWs(s[i])

\* str::len and str::is_char_boundary: a character token is one byte long
\* unless it names a code point that UTF-8 encodes in 2, 3 or 4 bytes
Utf8Len(ch) ==
  CASE ch = "U+00E9" -> 2
    [] ch = "U+20AC" -> 3
    [] ch = "U+1F600" -> 4
    [] OTHER -> 1
\* the positions of the characters longer than one byte, and the byte length
\* of the first k characters given those positions
WideAt(s) == {i \in 1..Len(s) : Utf8Len(s[i]) > 1}
PrefixBytes(s, wide, k) ==
  k + Cardinality({i \in wide : i <= k})
    + Cardinality({i \in wide : i <= k /\ Utf8Len(s[i]) >= 3})
    + Cardinality({i \in wide : i <= k /\ Utf8Len(s[i]) >= 4})
ByteLen(s) == PrefixBytes(s, WideAt(s), Len(s))
\* the prefixes that can end at byte b hold between b/4 and b characters
CharsUpTo(s, b) == {k \in 0..Len(s) : k <= b /\ 4 * k >= b}
IsCharBoundary(s, b) ==
  LET wide == WideAt(s) IN \E k \in CharsUpTo(s, b) : PrefixBytes(s, wide, k) = b
\* &s[..b], b a character boundary
ByteSlice(s, b) ==
  LET wide == WideAt(s)
  IN SubSeq(s, 1, CHOOSE k \in CharsUpTo(s, b) : PrefixBytes(s, wide, k) = b)

StartsWith(s, prefix) == Len(s) >= Len(prefix) /\ SubSeq(s, 1, Len(prefix)) = prefix
Contains(s, infix) ==
  \E i \in 1..Len(s) : i + Len(infix) - 1 <= Len(s) /\ SubSeq(s, i, i + Len(infix) - 1) = infix

RECURSIVE InsertSorted(_, _)
InsertSorted(sorted, x) ==
  IF sorted = <<>> THEN <<x>>
  ELSE LET last == sorted[Len(sorted)]
       IN IF last.k <= x.k THEN Append(sorted, x)
          ELSE Append(InsertSorted(SubSeq(sorted, 1, Len(sorted) - 1), x), last)

RECURSIVE StableSort(_)
StableSort(s) ==
  IF s = <<>> THEN <<>>
  ELSE InsertSorted(StableSort(SubSeq(s, 1, Len(s) - 1)), s[Len(s)])

SortByKey(s, key) ==
  IF s = <<>> THEN <<>>
  ELSE LET keyed == [i \in 1..Len(s) |-> [k |-> key[i], v |-> s[i]]]
           sorted == StableSort(keyed)
       IN [i \in 1..Len(s) |-> sorted[i].v]

Enumerate(msgs) ==
  IF msgs = <<>> THEN <<>> ELSE [i \in 1..Len(msgs) |-> [msgs[i] EXCEPT !.idx = i - 1]]

RECURSIVE Flatten(_)
Flatten(opts) ==
  IF opts = <<>> THEN <<>> ELSE opts[1] \o Flatten(Tail(opts))

MapSeq(s, F(_)) == IF s = <<>> THEN <<>> ELSE [i \in 1..Len(s) |-> F(s[i])]

(***************************************************************************)
(* Shared helpers of the connector framework (connectors/mod.rs).          *)
(***************************************************************************)
file_modified_since(f, since) == ~IsSome(since) \/ f.mtime > Get(since)

parse_timestamp(raw) ==
  IF ~IsSome(raw) THEN None
  ELSE IF Get(raw).unit = "s" THEN Some(Get(raw).v * MsPerSec)
  ELSE Some(Get(raw).v)

RECURSIVE flatten_content(_)
flatten_content(val) ==
  IF val.t = "str" THEN val.s
  ELSE IF val.t = "arr"
    THEN Join(MapSeq(val.items, flatten_content), <<"\n">>)
  ELSE <<>>

NormalizedMessage(idx, role, created_at, content, extra) ==
  [idx |-> idx, role |-> role, created_at |-> created_at, content |-> content, extra |-> extra]

NormalizedConversation(slug, external_id, f, started_at, ended_at, messages) ==
  [agent_slug |-> slug, external_id |-> external_id, source_path |-> f.path,
   started_at |-> started_at, ended_at |-> ended_at, messages |-> messages]

ScanOk(convs, parsed, failed) ==
  [ok |-> TRUE, convs |-> convs, parsed |-> parsed, failed |-> failed, panicked |-> FALSE]
ScanErr(parsed, failed) ==
  [ok |-> FALSE, convs |-> <<>>, parsed |-> parsed, failed |-> failed, panicked |-> FALSE]
\* the call did not return: a panic unwound through scan
ScanPanic(parsed, failed) == [ScanErr(parsed, failed) EXCEPT !.panicked = TRUE]

(***************************************************************************)
(* OpenCode connector (connectors/opencode.rs).  A session file f stands   *)
(* for session/{project}/{f.path}.json with id f.ext; the messages written *)
(* with it live in message/{f.ext}/ and their parts in part/{message}/.    *)
(***************************************************************************)
OcSessionOf(f) == [id |-> f.ext, created |-> f.t_start, updated |-> f.t_end]

scan_sessions(fs) ==
  [sessions |-> SelectSeq(fs, LAMBDA f : f.st \notin {"unreadable", "malformed"}),
   parsed |-> {f.path : f \in {g \in Range(fs) : g.st # "unreadable"}},
   failed |-> {f.path : f \in {g \in Range(fs) : g.st \in {"unreadable", "malformed"}}}]

OcMessageDir(fs, sid) == Flatten(MapSeq(SelectSeq(fs, LAMBDA f : f.ext = sid), LAMBDA f : f.msgs))
OcMessageDirFails(fs, sid) == \E f \in Range(fs) : f.ext = sid /\ f.st = "dir_unreadable"

load_messages(fs, sid) ==
  LET dir == OcMessageDir(fs, sid)
  IN SortByKey(dir, [i \in 1..Len(dir) |-> UnwrapOr(dir[i].ts, 0)])

load_parts(msg) ==
  IF msg.c.partsOk
    THEN Some(SortByKey(msg.c.parts, [i \in 1..Len(msg.c.parts) |-> msg.c.parts[i].id]))
    ELSE None

\* &cmd[..100] of a command of more than 100 bytes: a str slice panics when
\* the byte index is inside a character
CmdSlicePanics(cmd) == ByteLen(cmd) > CmdMax /\ ~IsCharBoundary(cmd, CmdMax)
cmd_short(cmd) ==
  IF ByteLen(cmd) > CmdMax
    THEN (IF IsCharBoundary(cmd, CmdMax) THEN ByteSlice(cmd, CmdMax) ELSE <<>>) \o <<"...">>
    ELSE cmd
\* the part reaches the command branch of the tool description
CommandOf(part) ==
  IF part.type = "tool" /\ IsSome(part.state) /\ ~IsSome(Get(part.state).title)
       /\ IsSome(Get(part.state).input)
    THEN LET input == Get(Get(part.state).input)
         IN IF ~IsSome(input.description) /\ ~IsSome(input.filePath) THEN input.command ELSE None
    ELSE None
AssemblePanics(parts) ==
  \E p \in Range(parts) : IsSome(CommandOf(p)) /\ CmdSlicePanics(Get(CommandOf(p)))
OcPanics(messages) ==
  \E m \in Range(messages) : IsSome(load_parts(m)) /\ AssemblePanics(Get(load_parts(m)))

OcToolDesc(part) ==
  LET tool_name == UnwrapOr(part.tool, <<"unknown">>)
      plain == <<"[Tool: ">> \o tool_name \o <<"]">>
      with(d) == <<"[Tool: ">> \o tool_name \o <<" - ">> \o d \o <<"]">>
  IN IF ~IsSome(part.state) THEN plain
     ELSE LET state == Get(part.state)
              desc == IF IsSome(state.title) THEN with(Get(state.title))
                      ELSE IF ~IsSome(state.input) THEN plain
                      ELSE LET input == Get(state.input)
                           IN IF IsSome(input.description) THEN with(Get(input.description))
                              ELSE IF IsSome(input.filePath) THEN with(Get(input.filePath))
                              ELSE IF IsSome(input.command)
                                THEN with(cmd_short(Get(input.command)))
                              ELSE plain
          IN IF IsSome(state.output) /\ Get(state.output) # <<>> /\ ByteLen(Get(state.output)) < OutMax
               THEN desc \o <<"\n">> \o Get(state.output)
               ELSE desc

OcPartContent(part) ==
  CASE part.type = "text" ->
         IF IsSome(part.text) /\ Get(part.text) # <<>> THEN Some(Get(part.text)) ELSE None
    [] part.type = "reasoning" ->
         IF IsSome(part.text) /\ Get(part.text) # <<>>
           THEN Some(<<"[Reasoning]", "\n">> \o Get(part.text)) ELSE None
    [] part.type = "tool" -> Some(OcToolDesc(part))
    [] part.type = "patch" ->
         IF IsSome(part.files)
           THEN Some(<<"[Patch: ">> \o Join(Get(part.files), <<", ">>) \o <<"]">>) ELSE None
    [] part.type = "file" ->
         IF IsSome(part.filename) THEN Some(<<"[File: ">> \o Get(part.filename) \o <<"]">>) ELSE None
    [] OTHER -> None

assemble_content(parts) == Join(Flatten(MapSeq(parts, OcPartContent)), <<"\n">>)

normalize_message(msg, idx) ==
  LET parts == load_parts(msg)
      assembled == assemble_content(Get(parts))
      body == IF msg.role = "user" /\ IsSome(msg.c.summary) THEN Get(msg.c.summary).body ELSE None
      content == IF IsSome(body) /\ Get(body) # <<>>
                   THEN IF assembled = <<>> THEN Get(body)
                        ELSE Get(body) \o <<"\n", "\n">> \o assembled
                   ELSE assembled
  IN IF ~IsSome(parts) THEN None
     ELSE Some(NormalizedMessage(idx, msg.role, msg.ts, content, msg.id))

OcNormalizeAll(messages) ==
  Flatten([i \in 1..Len(messages) |-> normalize_message(messages[i], i - 1)])

\* the filter with `>=` in place of `>`
OcSinceFilterInclusive(normalized, since) ==
  IF IsSome(since)
    THEN Enumerate(SelectSeq(normalized,
           LAMBDA m : IsSome(m.created_at) /\ Get(m.created_at) >= Get(since)))
    ELSE normalized

OcSinceFilter(normalized, since) ==
  IF IsSome(since)
    THEN Enumerate(SelectSeq(normalized,
           LAMBDA m : IsSome(m.created_at) /\ Get(m.created_at) > Get(since)))
    ELSE normalized

OcConversation(f, msgs) ==
  LET session == OcSessionOf(f)
  IN NormalizedConversation("opencode", Some(session.id), f,
       OrElse(session.created, msgs[1].created_at),
       OrElse(session.updated, msgs[Len(msgs)].created_at), msgs)

RECURSIVE OcScanLoop(_, _, _, _, _, _)
OcScanLoop(fs, sessions, since, i, convs, seen_ids) ==
  IF i > Len(sessions) THEN [ok |-> TRUE, convs |-> convs, panicked |-> FALSE]
  ELSE LET f == sessions[i]
           next(cs, seen) == OcScanLoop(fs, sessions, since, i + 1, cs, seen)
       IN IF ~file_modified_since(f, since) THEN next(convs, seen_ids)
          ELSE IF f.ext \in seen_ids THEN next(convs, seen_ids)
          ELSE IF OcMessageDirFails(fs, f.ext)
            THEN [ok |-> FALSE, convs |-> <<>>, panicked |-> FALSE]
          ELSE IF OcPanics(load_messages(fs, f.ext))
            THEN [ok |-> FALSE, convs |-> <<>>, panicked |-> TRUE]
          ELSE LET messages == load_messages(fs, f.ext)
                   normalized == OcNormalizeAll(messages)
                   kept == OcSinceFilter(normalized, since)
                   seen == seen_ids \cup {f.ext}
               IN IF messages = <<>> \/ normalized = <<>> \/ kept = <<>>
                    THEN next(convs, seen)
                    ELSE next(Append(convs, OcConversation(f, kept)), seen)

OpenCodeScan(fs, since) ==
  LET found == scan_sessions(fs)
      out == OcScanLoop(fs, found.sessions, since, 1, <<>>, {})
  IN IF out.ok THEN ScanOk(out.convs, found.parsed, found.failed)
     ELSE IF out.panicked THEN ScanPanic(found.parsed, found.failed)
     ELSE ScanErr(found.parsed, found.failed)

(***************************************************************************)
(* ChatGPT connector (connectors/chatgpt.rs).  f.msgs are the messages of  *)
(* the file's `mapping` nodes in map order, f.flat its `messages` array.   *)
(***************************************************************************)
CgMappingContent(c) ==
  IF c.kind = "parts" THEN Some(Join(c.parts, <<"\n">>))
  ELSE IF c.kind = "text" THEN Some(c.text)
  ELSE None

CgPush(acc, role, created_at, content, extra) ==
  [messages |-> Append(acc.messages,
                  NormalizedMessage(Len(acc.messages), role, created_at, content, extra)),
   started_at |-> IF ~IsSome(acc.started_at) THEN created_at ELSE acc.started_at,
   ended_at |-> created_at]

CgSinceSkips(since, created_at) ==
  IsSome(since) /\ IsSome(created_at) /\ Get(created_at) <= Get(since)

RECURSIVE CgMappingLoop(_, _, _, _)
CgMappingLoop(nodes, since, i, acc) ==
  IF i > Len(nodes) THEN acc
  ELSE LET msg == nodes[i]
           content == CgMappingContent(msg.c)
           created_at == IF IsSome(msg.ts) THEN Some(Get(msg.ts).v * MsPerSec) ELSE None
       IN IF \/ msg.role = "system"
             \/ ~IsSome(content)
             \/ TrimIsEmpty(Get(content))
             \/ CgSinceSkips(since, created_at)
            THEN CgMappingLoop(nodes, since, i + 1, acc)
            ELSE CgMappingLoop(nodes, since, i + 1,
                   CgPush(acc, msg.role, created_at, Get(content), msg.id))

RECURSIVE CgFlatLoop(_, _, _, _)
CgFlatLoop(items, since, i, acc) ==
  IF i > Len(items) THEN acc
  ELSE LET item == items[i]
           content == item.c.text
           created_at == parse_timestamp(item.ts)
       IN IF \/ item.role = "system"
             \/ TrimIsEmpty(content)
             \/ CgSinceSkips(since, created_at)
            THEN CgFlatLoop(items, since, i + 1, acc)
            ELSE CgFlatLoop(items, since, i + 1,
                   CgPush(acc, item.role, created_at, content, item.id))

parse_conversation_file(f, since) ==
  LET empty == [messages |-> <<>>, started_at |-> None, ended_at |-> None]
      nodes == SortByKey(f.msgs, [i \in 1..Len(f.msgs) |->
                 IF IsSome(f.msgs[i].ts) THEN Get(f.msgs[i].ts).v ELSE 0])
      mapped == CgMappingLoop(nodes, since, 1, empty)
      acc == IF mapped.messages = <<>> THEN CgFlatLoop(f.flat, since, 1, mapped) ELSE mapped
  IN IF f.st \in {"unreadable", "malformed"} THEN [ok |-> FALSE, conv |-> None]
     ELSE IF acc.messages = <<>> THEN [ok |-> TRUE, conv |-> None]
     ELSE [ok |-> TRUE,
           conv |-> Some(NormalizedConversation("chatgpt", Some(f.ext), f,
                           acc.started_at, acc.ended_at, acc.messages))]

RECURSIVE CgScanLoop(_, _, _, _)
CgScanLoop(fs, since, i, out) ==
  IF i > Len(fs) THEN out
  ELSE LET f == fs[i]
           res == parse_conversation_file(f, since)
       IN IF ~file_modified_since(f, since) THEN CgScanLoop(fs, since, i + 1, out)
          ELSE CgScanLoop(fs, since, i + 1,
                 [out EXCEPT !.convs = @ \o res.conv,
                             !.parsed = @ \cup {f.path},
                             !.failed = IF res.ok THEN @ ELSE @ \cup {f.path}])

\* the directory names of the base directory, in read_dir order
RECURSIVE DirNames(_)
DirNames(fs) ==
  IF fs = <<>> THEN <<>>
  ELSE LET before == DirNames(SubSeq(fs, 1, Len(fs) - 1))
           name == fs[Len(fs)].dir
       IN IF name \in Range(before) THEN before ELSE Append(before, name)

IsEncryptedV2Only(name) == Contains(name, <<"-", "v2", "-">>)
IsEncrypted(name) == Contains(name, <<"-", "v2", "-">>) \/ Contains(name, <<"-", "v3", "-">>)

find_conversation_dirs(fs) ==
  MapSeq(SelectSeq(DirNames(fs), LAMBDA name : StartsWith(name, <<"conversations", "-">>)),
         LAMBDA name : [path |-> name, is_encrypted |-> IsEncrypted(name)])

RECURSIVE CgDirLoop(_, _, _, _)
CgDirLoop(fs, conv_dirs, since, out) ==
  IF conv_dirs = <<>> THEN out
  ELSE LET d == Head(conv_dirs)
           entries == SelectSeq(fs, LAMBDA f : f.dir = d.path)
       IN IF d.is_encrypted THEN CgDirLoop(fs, Tail(conv_dirs), since, out)
          ELSE CgDirLoop(fs, Tail(conv_dirs), since, CgScanLoop(entries, since, 1, out))

ChatGptScan(fs, since) == CgDirLoop(fs, find_conversation_dirs(fs), since, ScanOk(<<>>, {}, {}))

(***************************************************************************)
(* Gemini connector (connectors/gemini.rs).  f.msgs is the `messages`      *)
(* array of a chats/session-*.json file.                                   *)
(***************************************************************************)
RECURSIVE GmMessageLoop(_, _, _)
GmMessageLoop(items, i, acc) ==
  IF i > Len(items) THEN acc
  ELSE LET item == items[i]
           role == IF item.role = "model" THEN "assistant" ELSE item.role
           created == parse_timestamp(item.ts)
           timed == [acc EXCEPT !.started_at = OrElse(@, created),
                                !.ended_at = OrElse(created, @)]
           content_str == flatten_content(item.c)
       IN IF TrimIsEmpty(content_str) THEN GmMessageLoop(items, i + 1, timed)
          ELSE GmMessageLoop(items, i + 1,
                 [timed EXCEPT !.messages = Append(@,
                    NormalizedMessage(i - 1, role, created, content_str, item.id))])

RECURSIVE GmScanLoop(_, _, _)
GmScanLoop(fs, i, out) ==
  IF i > Len(fs) THEN out
  ELSE LET f == fs[i]
           acc == GmMessageLoop(f.msgs, 1,
                    [messages |-> <<>>, started_at |-> parse_timestamp(f.t_start),
                     ended_at |-> parse_timestamp(f.t_end)])
           read == [out EXCEPT !.parsed = @ \cup {f.path}]
       IN IF f.st = "unreadable" THEN ScanErr(out.parsed, out.failed \cup {f.path})
          ELSE IF f.st = "malformed"
            THEN GmScanLoop(fs, i + 1, [read EXCEPT !.failed = @ \cup {f.path}])
          ELSE IF acc.messages = <<>> THEN GmScanLoop(fs, i + 1, read)
          ELSE GmScanLoop(fs, i + 1,
                 [read EXCEPT !.convs = Append(@,
                    NormalizedConversation("gemini", Some(f.ext), f,
                      acc.started_at, acc.ended_at, acc.messages))])

GeminiScan(fs, since) == GmScanLoop(fs, 1, ScanOk(<<>>, {}, {}))

(***************************************************************************)
(* Codebuff connector (connectors/codebuff.rs).  f.msgs is the array of a  *)
(* projects/{project}/chats/{f.ext}/chat-messages.json file.               *)
(***************************************************************************)
RECURSIVE CbBackOff(_, _)
CbBackOff(output, end) ==
  IF ~IsCharBoundary(output, end) /\ end > 0 THEN CbBackOff(output, end - 1) ELSE end

CbTruncate(output) ==
  IF ByteLen(output) > CbOutMax
    THEN ByteSlice(output, CbBackOff(output, CbOutMax)) \o <<"... [truncated]">>
    ELSE output

RECURSIVE extract_block_content(_)
extract_block_content(block) ==
  LET own == IF IsSome(block.content) /\ Get(block.content) # <<>>
               THEN <<Get(block.content)>> ELSE <<>>
      tool_name == UnwrapOr(block.toolName, <<"unknown">>)
      head == <<"[Tool: ">> \o tool_name \o <<"]">>
      call == IF ~IsSome(block.input) THEN <<>>
              ELSE IF IsSome(Get(block.input).command)
                THEN <<head \o <<" ">> \o Get(Get(block.input).command)>>
              ELSE IF IsSome(Get(block.input).path)
                THEN <<head \o <<" ">> \o Get(Get(block.input).path)>>
              ELSE <<head>>
      out == IF IsSome(block.output) /\ CbTruncate(Get(block.output)) # <<>>
               THEN <<CbTruncate(Get(block.output))>> ELSE <<>>
  IN CASE block.type = "text" -> own
       [] block.type = "tool" -> call \o out
       [] block.type = "agent" -> own \o Flatten(MapSeq(block.blocks, extract_block_content))
       [] OTHER -> own

extract_content(m) ==
  LET direct == IF IsSome(m.c.content) /\ Get(m.c.content) # <<>>
                  THEN <<Get(m.c.content)>> ELSE <<>>
  IN Join(direct \o Flatten(MapSeq(m.c.blocks, extract_block_content)), <<"\n">>)

parse_codebuff_timestamp(m) ==
  OrElse(parse_timestamp(m.c.meta_ts), OrElse(parse_timestamp(m.ts), m.c.id_ts))

CbRole(variant) ==
  CASE variant = "ai" -> "assistant"
    [] variant = "human" -> "user"
    [] OTHER -> variant

CbMessageOf(m) == NormalizedMessage(0, CbRole(m.role), parse_codebuff_timestamp(m), extract_content(m), m.id)

extract_messages(msgs) ==
  LET out == Enumerate(MapSeq(SelectSeq(msgs, LAMBDA m : ~TrimIsEmpty(extract_content(m))),
                              CbMessageOf))
  IN IF out = <<>> THEN None ELSE Some(out)

RECURSIVE CbScanLoop(_, _, _, _, _)
CbScanLoop(fs, since, i, out, seen_ids) ==
  IF i > Len(fs) THEN out
  ELSE LET f == fs[i]
           messages == extract_messages(f.msgs)
           read == [out EXCEPT !.parsed = @ \cup {f.path}]
       IN IF ~file_modified_since(f, since) THEN CbScanLoop(fs, since, i + 1, out, seen_ids)
          ELSE IF f.st \in {"unreadable", "malformed"}
            THEN CbScanLoop(fs, since, i + 1, [read EXCEPT !.failed = @ \cup {f.path}], seen_ids)
          ELSE IF ~IsSome(messages) THEN CbScanLoop(fs, since, i + 1, read, seen_ids)
          ELSE IF f.ext \in seen_ids THEN CbScanLoop(fs, since, i + 1, read, seen_ids)
          ELSE CbScanLoop(fs, since, i + 1,
                 [read EXCEPT !.convs = Append(@,
                    NormalizedConversation("codebuff", Some(f.ext), f,
                      Get(messages)[1].created_at,
                      Get(messages)[Len(Get(messages))].created_at, Get(messages)))],
                 seen_ids \cup {f.ext})

CodebuffScan(fs, since) == CbScanLoop(fs, since, 1, ScanOk(<<>>, {}, {}), {})

(***************************************************************************)
(* Connector::scan, dispatched on the registry entry.                      *)
(***************************************************************************)
Scan(a, fs, since) ==
  CASE a = "opencode" -> OpenCodeScan(fs, since)
    [] a = "chatgpt" -> ChatGptScan(fs, since)
    [] a = "gemini" -> GeminiScan(fs, since)
    [] a = "codebuff" -> CodebuffScan(fs, since)

(***************************************************************************)
(* What the agents' applications write: the source messages a connector    *)
(* may meet.  id is the second the message was written in, which is also   *)
(* its only word of text.                                                  *)
(***************************************************************************)
SrcMsg(id, role, ts, c) == [id |-> id, role |-> role, ts |-> ts, c |-> c]
RawMs(t) == Some([unit |-> "ms", v |-> t * MsPerSec])
RawSec(t) == Some([unit |-> "s", v |-> t])

OcPart(id, type, text) ==
  [id |-> id, type |-> type, text |-> text, tool |-> None, state |-> None,
   files |-> None, filename |-> None]
OcBody(parts, summary, partsOk) == [parts |-> parts, summary |-> summary, partsOk |-> partsOk]
OcPlain(t) ==
  {SrcMsg(t, "user", Some(t * MsPerSec), OcBody(<<>>, Some([body |-> Some(Word(t))]), TRUE)),
   SrcMsg(t, "assistant", None, OcBody(<<OcPart(1, "text", Some(Word(t)))>>, None, TRUE))}
OcOdd(t) ==
  {SrcMsg(t, "assistant", Some(t * MsPerSec), OcBody(<<>>, None, TRUE)),
   SrcMsg(t, "assistant", Some(t * MsPerSec), OcBody(<<OcPart(1, "step-start", None)>>, None, TRUE)),
   SrcMsg(t, "user", Some(t * MsPerSec), OcBody(<<>>, Some([body |-> None]), TRUE)),
   SrcMsg(t, "assistant", Some(t * MsPerSec), OcBody(<<OcPart(1, "text", Some(Word(t)))>>, None, FALSE)),
   SrcMsg(t, "assistant", Some(t * MsPerSec),
     OcBody(<<[OcPart(1, "tool", None) EXCEPT !.tool = Some(<<"bash">>)]>>, None, TRUE))}

CgBody(kind, parts, text) == [kind |-> kind, parts |-> parts, text |-> text]
CgPlain(t) ==
  {SrcMsg(t, "user", RawSec(t), CgBody("parts", <<Word(t)>>, <<>>)),
   SrcMsg(t, "assistant", None, CgBody("text", <<>>, Word(t)))}
CgOdd(t) ==
  {SrcMsg(t, "system", RawSec(t), CgBody("parts", <<Word(t)>>, <<>>)),
   SrcMsg(t, "user", RawSec(t), CgBody("parts", <<<<>>>>, <<>>)),
   SrcMsg(t, "assistant", RawSec(t), CgBody("none", <<>>, <<>>))}
CgFlat(t) == {SrcMsg(t, "user", RawMs(t), CgBody("text", <<>>, Word(t)))}

GmStr(s) == [t |-> "str", s |-> s]
GmPlain(t) ==
  {SrcMsg(t, "user", RawMs(t), GmStr(Word(t))),
   SrcMsg(t, "model", None, GmStr(Word(t)))}
GmOdd(t) ==
  {SrcMsg(t, "model", RawMs(t), GmStr(<<" ">>)),
   SrcMsg(t, "user", RawMs(t), [t |-> "arr", items |-> <<GmStr(Word(t)), GmStr(Word(t))>>])}

CbBody(content, blocks) == [content |-> content, blocks |-> blocks, meta_ts |-> None, id_ts |-> None]
CbBlock(type, content) ==
  [type |-> type, content |-> content, toolName |-> None, input |-> None, output |-> None,
   blocks |-> <<>>]
CbPlain(t) ==
  {SrcMsg(t, "human", RawMs(t), CbBody(Some(Word(t)), <<>>)),
   SrcMsg(t, "ai", None, CbBody(Some(<<>>), <<CbBlock("text", Some(Word(t)))>>))}
CbOdd(t) ==
  {SrcMsg(t, "ai", RawMs(t), CbBody(Some(<<>>), <<>>)),
   SrcMsg(t, "ai", RawMs(t),
     CbBody(None, <<[CbBlock("tool", None) EXCEPT
                      !.input = Some([command |-> Some(Word(t)), path |-> None]),
                      !.output = Some(Word(t))]>>))}

PlainMsgs(a, t) ==
  CASE a = "opencode" -> OcPlain(t)
    [] a = "chatgpt" -> CgPlain(t)
    [] a = "gemini" -> GmPlain(t)
    [] a = "codebuff" -> CbPlain(t)
OddMsgs(a, t) ==
  CASE a = "opencode" -> OcOdd(t)
    [] a = "chatgpt" -> CgOdd(t)
    [] a = "gemini" -> GmOdd(t)
    [] a = "codebuff" -> CbOdd(t)

\* a write [to, ms]: the messages ms, appended to the file's field `to`
Plain(a, t) == {[to |-> "msgs", ms |-> <<m>>] : m \in PlainMsgs(a, t)}
Odd(a, t) ==
  {[to |-> "msgs", ms |-> <<m>>] : m \in OddMsgs(a, t)}
    \cup (IF a = "chatgpt" THEN {[to |-> "flat", ms |-> <<m>>] : m \in CgFlat(t)} ELSE {})
\* a dated turn and its undated reply, written together
Turn(a, t) ==
  {[to |-> "msgs", ms |-> <<u, [v EXCEPT !.id = 0 - t]>>] :
     u \in {m \in PlainMsgs(a, t) : IsSome(m.ts)}, v \in {m \in PlainMsgs(a, t) : ~IsSome(m.ts)}}

Damages(a) == {"unreadable", "malformed"} \cup (IF a = "opencode" THEN {"dir_unreadable"} ELSE {})

(***************************************************************************)
(* The data root: files are created, appended to, touched and damaged by   *)
(* the agent's application and the user, never by the program.             *)
(***************************************************************************)
NewFile(p, e, t, w) ==
  [path |-> p, dir |-> PlainDir, ext |-> e, mtime |-> t * MsPerSec, st |-> "ok",
   t_start |-> None, t_end |-> None,
   msgs |-> IF w.to = "msgs" THEN w.ms ELSE <<>>,
   flat |-> IF w.to = "flat" THEN w.ms ELSE <<>>]

CreateFile(e, front, w) ==
  /\ Len(files) < MaxFiles
  /\ clock' = clock + 1
  /\ LET f == NewFile(Len(files) + 1, e, clock + 1, w)
     IN files' = IF front THEN <<f>> \o files ELSE Append(files, f)
  /\ agent' = agent

AppendMessage(i, w) ==
  /\ i \in 1..Len(files)
  /\ files[i].st = "ok"
  /\ clock' = clock + 1
  /\ files' = [files EXCEPT ![i].mtime = (clock + 1) * MsPerSec,
                            ![i].msgs = IF w.to = "msgs" THEN @ \o w.ms ELSE @,
                            ![i].flat = IF w.to = "flat" THEN @ \o w.ms ELSE @]
  /\ agent' = agent

Touch(i) ==
  /\ i \in 1..Len(files)
  /\ files[i].st = "ok"
  /\ clock' = clock + 1
  /\ files' = [files EXCEPT ![i].mtime = (clock + 1) * MsPerSec]
  /\ agent' = agent

\* the last write of one file left it unusable, with nothing in it to parse;
\* its mtime is that of this write
Damage(i, how) ==
  /\ i \in 1..Len(files)
  /\ \A f \in Range(files) : f.st = "ok"
  /\ files' = [files EXCEPT ![i].st = how, ![i].msgs = <<>>, ![i].flat = <<>>]
  /\ UNCHANGED <<agent, clock>>

(***************************************************************************)
(* Direct calls of Connector::scan, as the connector tests make them.      *)
(***************************************************************************)
NoScan == [done |-> FALSE, since |-> None, res |-> ScanOk(<<>>, {}, {})]
SinceVals == {None} \cup {Some(k * MsPerSec) : k \in 0..MaxClock}

ScanDirect(since) ==
  /\ files # <<>>
  /\ LET out == [done |-> TRUE, since |-> since, res |-> Scan(agent, files, since)]
     IN /\ scanOut' = out
        /\ fullScan' = IF IsSome(since) THEN fullScan ELSE out
  /\ UNCHANGED <<fsVars, pipeVars, dbVars, watch, frontVars>>

ScanCreate ==
  /\ clock < MaxClock
  /\ \E e \in NewExtIds(files), w \in Plain(agent, clock + 1) \cup Odd(agent, clock + 1) :
       CreateFile(e, FALSE, w)
  /\ scanOut' = NoScan /\ fullScan' = NoScan
  /\ UNCHANGED <<pipeVars, dbVars, watch, frontVars>>

ScanAppend ==
  /\ clock < MaxClock
  /\ \E i \in 1..Len(files), w \in Plain(agent, clock + 1) \cup Odd(agent, clock + 1) :
       AppendMessage(i, w)
  /\ scanOut' = NoScan /\ fullScan' = NoScan
  /\ UNCHANGED <<pipeVars, dbVars, watch, frontVars>>

ScanDamage ==
  /\ \E i \in 1..Len(files), how \in Damages(agent) : Damage(i, how)
  /\ scanOut' = NoScan /\ fullScan' = NoScan
  /\ UNCHANGED <<pipeVars, dbVars, watch, frontVars>>

ScanCall == \E since \in SinceVals : ScanDirect(since)

IdleRun == [phase |-> "idle"]
NoRun ==
  [kind |-> "none", n |-> 0, clean |-> FALSE, src |-> "changed", cycles |-> FALSE,
   crashed |-> FALSE]
NoTxn == [open |-> FALSE, n |-> 0]
NoProbe == [done |-> FALSE]
NoUi == [open |-> FALSE]
NoRender == [open |-> FALSE]
NoProc == [pc |-> "none"]
\* the watch loop before the first notification: nothing queued, no window open
NoWatch ==
  [phase |-> "idle", events |-> {}, batch |-> {}, slept |-> 0, todo |-> {}, cur |-> "none",
   changes |-> <<>>, started |-> [a \in Agents |-> 0]]

InitRest ==
  /\ clock = 0
  /\ files = <<>>
  /\ scanOut = NoScan
  /\ fullScan = NoScan
  /\ store = <<>>
  /\ index = {}
  /\ watermark = None
  /\ run = IdleRun
  /\ lastRun = NoRun
  /\ db = NoTxn
  /\ all_sessions = <<>>
  /\ observed = {}
  /\ watch = NoWatch
  /\ probe = NoProbe
  /\ ui = NoUi
  /\ md = NoRender
  /\ proc = NoProc

InitScan == agent \in Agents /\ InitRest
NextScan == ScanCreate \/ ScanAppend \/ ScanDamage \/ ScanCall
SpecScan == InitScan /\ [][NextScan]_vars

(***************************************************************************)
(* The relational store and the full-text index.  Rows are kept in id      *)
(* order; a row's id is its position.                                      *)
(***************************************************************************)
ConversationRow(id, c, mtime) ==
  [id |-> id, agent_slug |-> c.agent_slug, external_id |-> c.external_id,
   title |-> IF "title" \in DOMAIN c THEN c.title ELSE None,
   source_path |-> c.source_path, started_at |-> c.started_at, ended_at |-> c.ended_at,
   last_seen_mtime |-> mtime, messages |-> c.messages]

SamePath(rows, c) ==
  {i \in 1..Len(rows) : rows[i].agent_slug = c.agent_slug /\ rows[i].source_path = c.source_path}
SameExternalId(rows, c) ==
  {i \in 1..Len(rows) : /\ rows[i].agent_slug = c.agent_slug
                        /\ IsSome(c.external_id)
                        /\ rows[i].external_id = c.external_id}

\* the id of the row that holds c after the upsert, 0 when an older file of
\* the same external_id loses against the row already there
UpsertTarget(rows, c, mtime) ==
  IF SamePath(rows, c) # {} THEN CHOOSE i \in SamePath(rows, c) : TRUE
  ELSE IF SameExternalId(rows, c) # {}
    THEN LET i == CHOOSE j \in SameExternalId(rows, c) : TRUE
         IN IF mtime >= rows[i].last_seen_mtime THEN i ELSE 0
  ELSE Len(rows) + 1

upsert_conversation(rows, c, mtime) ==
  LET id == UpsertTarget(rows, c, mtime)
  IN IF id = 0 THEN rows
     ELSE IF id = Len(rows) + 1 THEN Append(rows, ConversationRow(id, c, mtime))
     ELSE [rows EXCEPT ![id] = ConversationRow(id, c, mtime)]

IndexDocument(id, m) ==
  [conversation_id |-> id, idx |-> m.idx, role |-> m.role, content |-> m.content]

add_conversation(docs, id, c) ==
  {d \in docs : d.conversation_id # id} \cup {IndexDocument(id, m) : m \in Range(c.messages)}

\* startup reconciliation: the conversations whose document count disagrees
\* with their message count get their documents recomputed from the store
DocsOf(docs, id) == {d \in docs : d.conversation_id = id}
Disagreeing(docs, rows) ==
  {i \in 1..Len(rows) : Cardinality(DocsOf(docs, rows[i].id)) # Len(rows[i].messages)}
no_reconcile(docs, rows) == docs
reconcile(docs, rows) ==
  {d \in docs : \A i \in Disagreeing(docs, rows) : d.conversation_id # rows[i].id}
    \cup UNION {{IndexDocument(rows[i].id, m) : m \in Range(rows[i].messages)} :
                  i \in Disagreeing(docs, rows)}

\* the terms a search can match
Terms(docs) == UNION {Range(d.content) : d \in docs}
RowContent(r) ==
  [agent_slug |-> r.agent_slug, external_id |-> r.external_id, source_path |-> r.source_path,
   started_at |-> r.started_at, ended_at |-> r.ended_at, messages |-> r.messages]
Rows(rows) == MapSeq(rows, RowContent)
RECURSIVE MessageCount(_)
MessageCount(rows) ==
  IF rows = <<>> THEN 0 ELSE Len(rows[1].messages) + MessageCount(Tail(rows))

(***************************************************************************)
(* The indexer orchestrator: one run scans the agent's root, persists the  *)
(* emitted conversations one file at a time, and then moves the watermark. *)
(* lastRun keeps what the last finished run started from.                  *)
(***************************************************************************)
FileAt(p) == CHOOSE f \in Range(files) : f.path = p
Running == run.phase = "persist"

RunRecord(full, res) ==
  [phase |-> "persist", n |-> lastRun.n + 1, full |-> full, queue |-> res.convs, failed |-> res.failed,
   seen_mtime |-> 0, wm_before |-> watermark,
   terms_before |-> Terms(index), rows_before |-> Rows(store),
   ndocs_before |-> Cardinality(index), delta |-> lastRun.src,
   prev_clean |-> lastRun.clean, cycles |-> lastRun.cycles, after_crash |-> lastRun.crashed]

Finished(r, scan_ok, cancelled) ==
  [kind |-> IF r.full THEN "full" ELSE "incremental", n |-> r.n,
   scan_ok |-> scan_ok, cancelled |-> cancelled, failed |-> r.failed,
   clean |-> scan_ok /\ ~cancelled /\ r.failed = {}, prev_clean |-> r.prev_clean,
   wm_before |-> r.wm_before, terms_before |-> r.terms_before,
   rows_before |-> r.rows_before, ndocs_before |-> r.ndocs_before, delta |-> r.delta,
   src |-> "same",
   cycles |-> scan_ok /\ ~cancelled /\ r.failed = {} /\ (r.full \/ r.cycles),
   crashed |-> FALSE, after_crash |-> r.after_crash]

\* run_index, up to the end of the scan: a full rebuild truncates the index,
\* the reconciliation recomputes the documents of the conversations the index
\* disagrees with, and the connector scans
StartRun(full) ==
  /\ run = IdleRun
  /\ lastRun.n < MaxRuns
  /\ files # <<>>
  /\ LET since == IF full THEN Some(0) ELSE watermark
         res == Scan(agent, files, since)
         opened == IF full THEN {} ELSE index
     IN /\ index' = reconcile(opened, store)
        /\ IF res.ok
             THEN run' = RunRecord(full, res) /\ lastRun' = lastRun
             ELSE run' = IdleRun /\ lastRun' = Finished(RunRecord(full, res), FALSE, FALSE)
  /\ UNCHANGED <<fsVars, scanVars, store, watermark, dbVars, watch, frontVars>>

\* one conversation: the relational row first, then the index update
PersistConversation ==
  /\ Running /\ run.queue # <<>>
  /\ LET c == Head(run.queue)
         mtime == FileAt(c.source_path).mtime
         id == UpsertTarget(store, c, mtime)
     IN /\ store' = upsert_conversation(store, c, mtime)
        /\ index' = IF id = 0 THEN index ELSE add_conversation(index, id, c)
        /\ run' = [run EXCEPT !.queue = Tail(@), !.seen_mtime = MaxOf(@, mtime)]
  /\ UNCHANGED <<fsVars, scanVars, watermark, lastRun, dbVars, watch, frontVars>>

\* the cancel flag is set and seen between two files: the run ends there and
\* the watermark stays
CancelRun ==
  /\ Running
  /\ run' = IdleRun
  /\ lastRun' = Finished(run, TRUE, TRUE)
  /\ UNCHANGED <<fsVars, scanVars, store, index, watermark, dbVars, watch, frontVars>>

\* the process dies between the relational commit of a conversation and its
\* index update
CrashRun ==
  /\ Running /\ run.queue # <<>>
  /\ LET c == Head(run.queue)
     IN store' = upsert_conversation(store, c, FileAt(c.source_path).mtime)
  /\ run' = IdleRun
  /\ lastRun' = [Finished(run, TRUE, FALSE) EXCEPT !.clean = FALSE, !.cycles = FALSE,
                                                   !.crashed = TRUE]
  /\ UNCHANGED <<fsVars, scanVars, index, watermark, dbVars, watch, frontVars>>

\* a run that takes the newest mtime it saw for the watermark, whatever the
\* watermark was
FinishRunLatest ==
  /\ Running /\ run.queue = <<>>
  /\ watermark' = Some(run.seen_mtime)
  /\ run' = IdleRun
  /\ lastRun' = Finished(run, TRUE, FALSE)
  /\ UNCHANGED <<fsVars, scanVars, store, index, dbVars, watch, frontVars>>
FinishRun ==
  /\ Running /\ run.queue = <<>>
  /\ watermark' = IF run.seen_mtime = 0 THEN watermark
                  ELSE Some(MaxOf(UnwrapOr(watermark, 0), run.seen_mtime))
  /\ run' = IdleRun
  /\ lastRun' = Finished(run, TRUE, FALSE)
  /\ UNCHANGED <<fsVars, scanVars, store, index, dbVars, watch, frontVars>>

\* the agent's application writes while no run is in progress
SourceChanged(how, keeps_cycles) ==
  /\ run = IdleRun
  /\ lastRun' = [kind |-> "none", n |-> lastRun.n, clean |-> lastRun.clean,
                  src |-> IF how = "touched" /\ lastRun.src = "same" THEN "touched"
                          ELSE IF how = "touched" THEN lastRun.src ELSE "changed",
                  cycles |-> lastRun.cycles /\ keeps_cycles, crashed |-> lastRun.crashed]
  /\ UNCHANGED <<scanVars, store, index, watermark, run, dbVars, watch, frontVars>>

PipeCreate ==
  /\ clock < MaxClock
  /\ \E e \in NewExtIds(files), w \in Plain(agent, clock + 1) \cup Turn(agent, clock + 1) :
       CreateFile(e, FALSE, w)
  /\ SourceChanged("changed", FALSE)
PipeAppend ==
  /\ clock < MaxClock
  /\ \E i \in 1..Len(files), w \in Plain(agent, clock + 1) \cup Turn(agent, clock + 1) :
       AppendMessage(i, w)
  /\ SourceChanged("changed", TRUE)
PipeTouch ==
  /\ clock < MaxClock
  /\ \E i \in 1..Len(files) : Touch(i)
  /\ SourceChanged("touched", FALSE)
PipeDamage ==
  /\ \E i \in 1..Len(files), how \in Damages(agent) : Damage(i, how)
  /\ SourceChanged("changed", FALSE)

RunFull == StartRun(TRUE)
RunIncremental == StartRun(FALSE)

Init == agent \in Agents /\ InitRest
Next ==
  \/ PipeCreate \/ PipeAppend \/ PipeTouch \/ PipeDamage
  \/ RunFull \/ RunIncremental
  \/ PersistConversation \/ CancelRun \/ CrashRun \/ FinishRun
Spec == Init /\ [][Next]_vars

(***************************************************************************)
(* The store under a writer and a reader.  The background indexer replaces *)
(* one conversation in a transaction of several statements; the sessions   *)
(* list reads through a connection of its own.                             *)
(***************************************************************************)
\* a conversation of k messages, as the n-th upsert writes it
MessageSet(k, n) ==
  IF k = 0 THEN <<>>
  ELSE [i \in 1..k |-> NormalizedMessage(i - 1, "user", Some(n * MsPerSec), Word(n), i)]
Upserted(p, k, n) ==
  [agent_slug |-> agent, external_id |-> None, source_path |-> p,
   started_at |-> Some(p * MsPerSec), ended_at |-> None, messages |-> MessageSet(k, n)]

\* BEGIN, and the insert-or-replace of the conversation row: the row's old
\* messages are still there
BeginUpsert(c) ==
  /\ ~db.open
  /\ db.n < MaxTxns
  /\ LET id == UpsertTarget(store, c, 0)
         old == IF id <= Len(store) THEN store[id].messages ELSE <<>>
         row == [ConversationRow(id, c, 0) EXCEPT !.messages = old]
     IN db' = [open |-> TRUE, n |-> db.n + 1, step |-> "row", id |-> id,
               pending |-> c.messages, new |-> c.messages,
               rows |-> IF id <= Len(store) THEN [store EXCEPT ![id] = row]
                        ELSE Append(store, row)]
  /\ UNCHANGED <<fsVars, scanVars, pipeVars, all_sessions, observed, watch, frontVars>>

DeleteMessages ==
  /\ db.open /\ db.step = "row"
  /\ db' = [db EXCEPT !.step = "insert", !.rows[db.id].messages = <<>>]
  /\ UNCHANGED <<fsVars, scanVars, pipeVars, all_sessions, observed, watch, frontVars>>

InsertMessage ==
  /\ db.open /\ db.step = "insert" /\ db.pending # <<>>
  /\ db' = [db EXCEPT !.pending = Tail(@),
                      !.rows[db.id].messages = Append(@, Head(db.pending))]
  /\ UNCHANGED <<fsVars, scanVars, pipeVars, all_sessions, observed, watch, frontVars>>

Commit ==
  /\ db.open /\ db.step = "insert" /\ db.pending = <<>>
  /\ store' = db.rows
  /\ db' = [open |-> FALSE, n |-> db.n]
  /\ UNCHANGED <<fsVars, scanVars, index, watermark, run, lastRun, all_sessions, observed, watch, frontVars>>

\* the rows a connection other than the writer's reads: the committed ones
ReadSnapshot(committed, txn) == committed
\* the rows the writer's own connection reads
DirtySnapshot(committed, txn) == IF txn.open THEN txn.rows ELSE committed

StartedDesc(rows) ==
  [i \in 1..Len(rows) |->
     IF IsSome(rows[i].started_at) THEN 0 - Get(rows[i].started_at) ELSE 1]

\* (conversation, message_count), by started_at descending, nulls last
list_conversations_for_workspace(rows, limit, offset) ==
  LET sorted == SortByKey(rows, StartedDesc(rows))
      page == SubSeq(sorted, offset + 1, IF Len(sorted) < offset + limit THEN Len(sorted)
                                         ELSE offset + limit)
  IN MapSeq(page, LAMBDA r : [conv |-> r, msg_count |-> Len(r.messages)])

SessionInfo(pair) ==
  [id |-> pair.conv.id, agent_slug |-> pair.conv.agent_slug, title |-> pair.conv.title,
   source_path |-> pair.conv.source_path, started_at |-> pair.conv.started_at,
   message_count |-> pair.msg_count]

(***************************************************************************)
(* The sessions TUI (ui/sessions.rs): SessionsState and its event loop.    *)
(* Text is a sequence of characters; an agent slug is spelled out by       *)
(* SlugText where the filter looks into it.                                *)
(***************************************************************************)
\* char::to_lowercase on the letters of the model
Lower(ch) == CASE ch = "A" -> "a" [] ch = "Q" -> "q" [] ch = "R" -> "r" [] OTHER -> ch
\* the text as it is, letter case kept
keep_case(str) == str
to_lowercase(str) == [i \in 1..Len(str) |-> Lower(str[i])]
SlugText(slug) ==
  CASE slug = "chatgpt" -> <<"c", "h", "a", "t", "g", "p", "t">>
    [] slug = "codebuff" -> <<"c", "o", "d", "e", "b", "u", "f", "f">>
    [] slug = "gemini" -> <<"g", "e", "m", "i", "n", "i">>
    [] slug = "opencode" -> <<"o", "p", "e", "n", "c", "o", "d", "e">>
\* BTreeMap<String, _>: the slugs in the order of String
SlugOrder == <<"chatgpt", "codebuff", "gemini", "opencode">>

\* DateTime::<Utc>::from_timestamp(secs, 0), as the civil date of the day
\* count since 1970-01-01
CivilFromDays(days) ==
  LET z == days + 719468
      era == z \div 146097
      doe == z - era * 146097
      yoe == (doe - doe \div 1460 + doe \div 36524 - doe \div 146096) \div 365
      doy == doe - (365 * yoe + yoe \div 4 - yoe \div 100)
      mp == (5 * doy + 2) \div 153
      d == doy - (153 * mp + 2) \div 5 + 1
      m == IF mp < 10 THEN mp + 3 ELSE mp - 9
  IN [year |-> yoe + era * 400 + (IF m <= 2 THEN 1 ELSE 0), month |-> m, day |-> d]
Digits(n, width) == [i \in 1..width |-> ToString((n \div (10 ^ (width - i))) % 10)]
\* dt.format("%Y-%m-%d").to_string()
FormatDate(ts) ==
  LET date == CivilFromDays((ts \div MsPerSec) \div 86400)
  IN Digits(date.year, 4) \o <<"-">> \o Digits(date.month, 2) \o <<"-">> \o Digits(date.day, 2)

\* Option<i64> in descending order: Some before None, larger first; ts >= 0
ByStartedDesc(sessions) ==
  [i \in 1..Len(sessions) |->
     IF IsSome(sessions[i].started_at) THEN 0 - Get(sessions[i].started_at) ELSE 1]
ByStartedAsc(sessions) ==
  [i \in 1..Len(sessions) |->
     IF IsSome(sessions[i].started_at) THEN Get(sessions[i].started_at) ELSE 0 - 1]
\* the groups with each group sorted by a.started_at.cmp(&b.started_at)
group_and_sort_ascending(sessions) ==
  LET of(slug) == SelectSeq(sessions, LAMBDA x : x.agent_slug = slug)
      present == SelectSeq(SlugOrder, LAMBDA slug : of(slug) # <<>>)
  IN [i \in 1..Len(present) |->
        [agent |-> present[i], sessions |-> SortByKey(of(present[i]), ByStartedAsc(of(present[i])))]]
group_and_sort_sessions(sessions) ==
  LET of(slug) == SelectSeq(sessions, LAMBDA x : x.agent_slug = slug)
      present == SelectSeq(SlugOrder, LAMBDA slug : of(slug) # <<>>)
  IN [i \in 1..Len(present) |->
        [agent |-> present[i], sessions |-> SortByKey(of(present[i]), ByStartedDesc(of(present[i])))]]

Matches(session, query) ==
  LET title_match == IsSome(session.title) /\ Contains(to_lowercase(Get(session.title)), query)
      agent_match == Contains(to_lowercase(SlugText(session.agent_slug)), query)
      date_match == IsSome(session.started_at)
                      /\ Contains(FormatDate(Get(session.started_at)), query)
  IN title_match \/ agent_match \/ date_match
\* ListState::default(), then select(Some(0)) when the first group has a session
FirstSelection(groups) ==
  IF groups # <<>> /\ groups[1].sessions # <<>> THEN Some(0) ELSE None

\* SessionsState::apply_filter over all_sessions = sessions
apply_filter(state, sessions) ==
  LET query == to_lowercase(state.search_query)
      filtered == IF query = <<>> THEN sessions
                  ELSE SelectSeq(sessions, LAMBDA x : Matches(x, query))
      groups == group_and_sort_sessions(filtered)
  IN [state EXCEPT !.sessions_by_agent = groups, !.selected_agent = 0,
                   !.selected_session = FirstSelection(groups)]

\* a connection a read path of the front-end opens, and the way it opens it
Connection(by, mode) == [by |-> by, mode |-> mode]
\* refresh_sessions on the state of an open TUI: SqliteStorage::open, the new
\* list, apply_filter
Refreshed(state, sessions) ==
  IF state.open
    THEN [apply_filter(state, sessions) EXCEPT
            !.conn = Connection("refresh_sessions", "read_write")]
    ELSE state

\* what the complete sets of conversation id are at this moment: the committed
\* one and, when the writer is replacing it, the one being written
CompleteCounts(id) ==
  {Len(store[i].messages) : i \in {j \in 1..Len(store) : j = id}}
    \cup (IF db.open /\ db.id = id THEN {Len(db.new)} ELSE {})

\* refresh through the connection `rows` is read from
Refresh(rows) ==
  /\ LET conversations_with_counts == list_conversations_for_workspace(rows, SessionsLimit, 0)
     IN /\ all_sessions' = MapSeq(conversations_with_counts, SessionInfo)
        /\ ui' = Refreshed(ui, MapSeq(conversations_with_counts, SessionInfo))
        /\ observed' =
             {[id |-> x.conv.id, message_count |-> x.msg_count,
               complete |-> CompleteCounts(x.conv.id),
               working |-> IF db.open /\ db.id = x.conv.id
                             THEN Some(Len(db.rows[db.id].messages)) ELSE None] :
                x \in Range(conversations_with_counts)}
  /\ UNCHANGED <<fsVars, scanVars, pipeVars, db, watch, probe, md, proc>>

refresh_on_writer_connection == Refresh(DirtySnapshot(store, db))
refresh_sessions == Refresh(ReadSnapshot(store, db))

UpsertAny ==
  \E p \in Paths, k \in 0..MaxSetLen : BeginUpsert(Upserted(p, k, db.n + 1))

InitStore == agent \in Agents /\ InitRest
NextStore ==
  \/ UpsertAny \/ DeleteMessages \/ InsertMessage \/ Commit
  \/ refresh_sessions
SpecStore == InitStore /\ [][NextStore]_vars

(***************************************************************************)
(* The sessions TUI (ui/sessions.rs): SessionsState and the event loop of  *)
(* run_sessions_tui.  The background indexer commits conversations while   *)
(* the TUI runs; the TUI reads through connections of its own.             *)
(***************************************************************************)
U16Max == 65535
saturating_sub(a, b) == IF a < b THEN 0 ELSE a - b
saturating_mul(a, b) == IF a * b > U16Max THEN U16Max ELSE a * b
\* `x as i16` of a u16, `x as u16` of an i32
as_i16(x) == IF x >= 32768 THEN x - 65536 ELSE x
as_u16(x) == x % 65536

\* SessionsState::new
NewState(sessions) ==
  LET groups == group_and_sort_sessions(sessions)
  IN [open |-> TRUE, sessions_by_agent |-> groups, selected_agent |-> 0,
      selected_session |-> FirstSelection(groups), search_query |-> <<>>,
      focus |-> "Search", view_mode |-> "List", detail_view |-> None, detail_scroll |-> 0,
      storage |-> Connection("run_sessions_tui", "read_write"),
      conn |-> Connection("run_sessions_tui", "read_write")]

next_agent(state) ==
  IF state.sessions_by_agent = <<>> THEN state
  ELSE [state EXCEPT !.selected_agent = (state.selected_agent + 1) % Len(state.sessions_by_agent),
                     !.selected_session = Some(0)]
prev_agent(state) ==
  IF state.sessions_by_agent = <<>> THEN state
  ELSE [state EXCEPT !.selected_agent = IF state.selected_agent = 0
                                          THEN Len(state.sessions_by_agent) - 1
                                          ELSE state.selected_agent - 1,
                     !.selected_session = Some(0)]
\* sessions_by_agent.get(selected_agent): the sessions of the selected group
SelectedGroup(state) ==
  IF state.selected_agent < Len(state.sessions_by_agent)
    THEN Some(state.sessions_by_agent[state.selected_agent + 1].sessions) ELSE None
\* the next session without the wrap to the first one
next_session_unwrapped(state) ==
  IF ~IsSome(SelectedGroup(state)) \/ Get(SelectedGroup(state)) = <<>> THEN state
  ELSE [state EXCEPT !.selected_session =
          Some(IF IsSome(state.selected_session) THEN Get(state.selected_session) + 1 ELSE 0)]
next_session(state) ==
  IF ~IsSome(SelectedGroup(state)) \/ Get(SelectedGroup(state)) = <<>> THEN state
  ELSE LET sessions == Get(SelectedGroup(state))
           i == IF IsSome(state.selected_session)
                  THEN (Get(state.selected_session) + 1) % Len(sessions) ELSE 0
       IN [state EXCEPT !.selected_session = Some(i)]
prev_session(state) ==
  IF ~IsSome(SelectedGroup(state)) \/ Get(SelectedGroup(state)) = <<>> THEN state
  ELSE LET sessions == Get(SelectedGroup(state))
           i == IF IsSome(state.selected_session)
                  THEN (IF Get(state.selected_session) = 0 THEN Len(sessions) - 1
                        ELSE Get(state.selected_session) - 1)
                  ELSE 0
       IN [state EXCEPT !.selected_session = Some(i)]
get_selected_session(state) ==
  IF ~IsSome(SelectedGroup(state)) \/ ~IsSome(state.selected_session) THEN None
  ELSE IF Get(state.selected_session) < Len(Get(SelectedGroup(state)))
         THEN Some(Get(SelectedGroup(state))[Get(state.selected_session) + 1]) ELSE None

\* ui::data::load_conversation: the conversation stored for the source path
load_conversation(rows, source_path) ==
  LET found == SelectSeq(rows, LAMBDA r : r.source_path = source_path)
  IN IF found = <<>> THEN None ELSE Some(found[1].id)
open_detail_view(state, rows) ==
  IF ~IsSome(get_selected_session(state)) THEN state
  ELSE LET view == load_conversation(rows, Get(get_selected_session(state)).source_path)
           opened == [state EXCEPT !.conn = Connection("open_detail_view", "read_only")]
       IN IF IsSome(view)
            THEN [opened EXCEPT !.detail_view = view, !.detail_scroll = 0, !.view_mode = "Detail"]
            ELSE opened
close_detail_view(state) ==
  [state EXCEPT !.view_mode = "List", !.detail_view = None, !.detail_scroll = 0]

scroll_detail(state, delta, max_scroll) ==
  IF state.view_mode = "Detail"
    THEN LET sum == state.detail_scroll + delta
             new_scroll == as_u16(IF sum < 0 THEN 0 ELSE sum)
         IN [state EXCEPT !.detail_scroll = IF new_scroll < max_scroll THEN new_scroll
                                            ELSE max_scroll]
    ELSE state

\* crossterm's KeyEvent: code and modifiers
Key(code) == [code |-> code, c |-> ""]
Char(c) == [code |-> "Char", c |-> c]
KeyCodes ==
  {Key(k) : k \in {"Esc", "Tab", "BackTab", "Enter", "Backspace", "Up", "Down", "Left",
                   "Right", "PageUp", "PageDown", "Home", "End"}}
    \cup {Char(c) : c \in {"a", "A", "2", "r", "q", "c", "j", "k", "g", "G", "o", "/", " "}}
KeyModifiers == {"NONE", "SHIFT", "CONTROL"}
\* the events drawn: a character with every modifier, another key with none
KeyEvents ==
  {[key |-> key, mods |-> mods] : key \in {k \in KeyCodes : k.code = "Char"}, mods \in KeyModifiers}
    \cup {[key |-> key, mods |-> "NONE"] : key \in {k \in KeyCodes : k.code # "Char"}}
\* the characters typed into the search box
TypedChars == {"A", "2", "r"}
\* rows of the terminal: the 12 rows of the frame, and none for the content
\* (the arithmetic of scrolling is checked under SpecScroll)
TermHeights == {12}

\* the background indexer commits one more conversation
TuiConvs ==
  {[agent_slug |-> "gemini", title |-> Some(<<"A", "2">>), started_at |-> Some(86400 * MsPerSec)],
   [agent_slug |-> "gemini", title |-> None, started_at |-> None],
   [agent_slug |-> "gemini", title |-> Some(<<"a">>), started_at |-> Some(0)],
   [agent_slug |-> "opencode", title |-> None, started_at |-> Some(86400 * MsPerSec)]}
IndexerCommit ==
  /\ Len(store) < MaxFiles
  /\ \E c \in TuiConvs :
       store' = Append(store,
                       ConversationRow(Len(store) + 1,
                                       [agent_slug |-> c.agent_slug, external_id |-> None,
                                        title |-> c.title, source_path |-> Len(store) + 1,
                                        started_at |-> c.started_at, ended_at |-> None,
                                        messages |-> <<>>], 0))
  /\ UNCHANGED <<fsVars, scanVars, index, watermark, run, lastRun, dbVars, watch, frontVars>>

\* run_sessions_tui up to the loop: the list of the workspace, SessionsState::new
TuiStart ==
  /\ ~ui.open
  /\ LET conversations_with_counts ==
           list_conversations_for_workspace(ReadSnapshot(store, db), SessionsLimit, 0)
         sessions == MapSeq(conversations_with_counts, SessionInfo)
     IN /\ all_sessions' = sessions
        /\ ui' = NewState(sessions)
  /\ UNCHANGED <<fsVars, scanVars, pipeVars, db, observed, watch, probe, md, proc>>

\* the handler leaves the loop: the function returns and the state is dropped
Break ==
  /\ ui' = NoUi
  /\ all_sessions' = <<>>
  /\ UNCHANGED <<fsVars, scanVars, pipeVars, db, observed, watch, probe, md, proc>>
\* the handler changes the state only
Becomes(state) ==
  /\ ui' = state
  /\ UNCHANGED <<fsVars, scanVars, pipeVars, dbVars, watch, probe, md, proc>>
Is(key, code) == key.code = code
IsChar(key, c) == key.code = "Char" /\ key.c = c

DetailKey(key, mods, content_height) ==
  LET max_scroll == saturating_mul(content_height, 10)
  IN CASE Is(key, "Esc") \/ IsChar(key, "q") -> Becomes(close_detail_view(ui))
       [] IsChar(key, "c") /\ mods = "CONTROL" -> Break
       [] Is(key, "Down") \/ IsChar(key, "j") -> Becomes(scroll_detail(ui, 1, max_scroll))
       [] Is(key, "Up") \/ IsChar(key, "k") -> Becomes(scroll_detail(ui, 0 - 1, max_scroll))
       [] Is(key, "PageDown") \/ IsChar(key, " ") ->
            Becomes(scroll_detail(ui, as_i16(content_height), max_scroll))
       [] Is(key, "PageUp") ->
            Becomes(scroll_detail(ui, 0 - as_i16(content_height), max_scroll))
       [] Is(key, "Home") \/ IsChar(key, "g") -> Becomes([ui EXCEPT !.detail_scroll = 0])
       [] Is(key, "End") \/ (IsChar(key, "G") /\ mods = "SHIFT") ->
            Becomes([ui EXCEPT !.detail_scroll = max_scroll])
       [] OTHER -> Becomes(ui)

\* the arm of `r` stands before the arm of the typed characters
SearchKey(key, mods) ==
  CASE IsChar(key, "c") /\ mods = "CONTROL" -> Break
    [] Is(key, "Esc") ->
         IF ui.search_query = <<>> THEN Break
         ELSE Becomes(apply_filter([ui EXCEPT !.search_query = <<>>], all_sessions))
    [] Is(key, "Tab") \/ Is(key, "Down") -> Becomes([ui EXCEPT !.focus = "Agents"])
    [] Is(key, "Enter") -> Becomes([ui EXCEPT !.focus = "Sessions"])
    [] Is(key, "Backspace") ->
         Becomes(apply_filter([ui EXCEPT !.search_query =
                                 IF @ = <<>> THEN @ ELSE SubSeq(@, 1, Len(@) - 1)],
                              all_sessions))
    [] IsChar(key, "r") -> refresh_sessions
    [] Is(key, "Char") /\ mods \in {"NONE", "SHIFT"} ->
         Becomes(apply_filter([ui EXCEPT !.search_query = Append(@, key.c)], all_sessions))
    [] OTHER -> Becomes(ui)

AgentsKey(key, mods) ==
  CASE IsChar(key, "q") \/ Is(key, "Esc") \/ (IsChar(key, "c") /\ mods = "CONTROL") -> Break
    [] Is(key, "Tab") \/ Is(key, "Right") -> Becomes([ui EXCEPT !.focus = "Sessions"])
    [] Is(key, "BackTab") -> Becomes([ui EXCEPT !.focus = "Search"])
    [] IsChar(key, "/") -> Becomes([ui EXCEPT !.focus = "Search"])
    [] Is(key, "Down") \/ IsChar(key, "j") -> Becomes(next_agent(ui))
    [] Is(key, "Up") \/ IsChar(key, "k") -> Becomes(prev_agent(ui))
    [] Is(key, "Enter") -> Becomes([ui EXCEPT !.focus = "Sessions"])
    [] IsChar(key, "r") -> refresh_sessions
    [] OTHER -> Becomes(ui)

SessionsKey(key, mods) ==
  CASE IsChar(key, "q") \/ Is(key, "Esc") \/ (IsChar(key, "c") /\ mods = "CONTROL") -> Break
    [] Is(key, "Tab") -> Becomes([ui EXCEPT !.focus = "Search"])
    [] Is(key, "BackTab") \/ Is(key, "Left") -> Becomes([ui EXCEPT !.focus = "Agents"])
    [] IsChar(key, "/") -> Becomes([ui EXCEPT !.focus = "Search"])
    [] Is(key, "Down") \/ IsChar(key, "j") -> Becomes(next_session(ui))
    [] Is(key, "Up") \/ IsChar(key, "k") -> Becomes(prev_session(ui))
    [] IsChar(key, "r") -> refresh_sessions
    [] Is(key, "Enter") -> Becomes(open_detail_view(ui, ReadSnapshot(store, db)))
    [] OTHER -> Becomes(ui)

\* one iteration of the loop: the draw sets content_height, then the key is
\* handled.  The search box takes up to MaxQuery characters, out of TypedChars.
KeyEvent(key, mods, height) ==
  /\ ui.open
  /\ LET content_height == saturating_sub(height, 12)
     IN IF ui.view_mode = "Detail" THEN DetailKey(key, mods, content_height)
        ELSE CASE ui.focus = "Search" ->
                    /\ Is(key, "Char") =>
                         key.c \in TypedChars /\ Len(ui.search_query) < MaxQuery
                    /\ SearchKey(key, mods)
               [] ui.focus = "Agents" -> AgentsKey(key, mods)
               [] ui.focus = "Sessions" -> SessionsKey(key, mods)
KeyPress == \E e \in KeyEvents, height \in TermHeights : KeyEvent(e.key, e.mods, height)

InitTui == agent = "opencode" /\ InitRest
NextTui == IndexerCommit \/ TuiStart \/ KeyPress
SpecTui == InitTui /\ [][NextTui]_vars

(***************************************************************************)
(* scroll_detail over the 16-bit range: the states are those of a TUI      *)
(* showing one conversation, in the list or in the detail view of a        *)
(* terminal tall enough for the scroll position; ui.call keeps the         *)
(* arguments of the last call.                                             *)
(***************************************************************************)
ScrollEdges == {0, 1, 9, 10, 32767, 32768, 65534, U16Max}
ScrollDeltas == {0 - 32768, 0 - 1, 0, 1, 32767}
MaxScrolls == {0, 10, U16Max}
OneConversation ==
  <<ConversationRow(1, [agent_slug |-> "gemini", external_id |-> None, title |-> None,
                        source_path |-> 1, started_at |-> Some(0), ended_at |-> None,
                        messages |-> <<>>], 0)>>
ScrollStates ==
  LET sessions == MapSeq(list_conversations_for_workspace(OneConversation, SessionsLimit, 0),
                         SessionInfo)
      list == [call |-> None] @@ [NewState(sessions) EXCEPT !.focus = "Sessions"]
      detail == open_detail_view(list, OneConversation)
  IN {list} \cup {[detail EXCEPT !.detail_scroll = at] : at \in ScrollEdges}
\* one call from each of the states drawn
ScrollCall ==
  /\ ui.open /\ ui.call = None
  /\ \E delta \in ScrollDeltas, max_scroll \in MaxScrolls :
       ui' = [scroll_detail(ui, delta, max_scroll) EXCEPT
                !.call = Some([from |-> ui.detail_scroll, delta |-> delta,
                               max_scroll |-> max_scroll])]
  /\ UNCHANGED <<fsVars, scanVars, pipeVars, dbVars, watch, probe, md, proc>>
InitScroll ==
  /\ agent = "gemini" /\ clock = 0 /\ files = <<>> /\ scanOut = NoScan /\ fullScan = NoScan
  /\ store = OneConversation /\ index = {} /\ watermark = None /\ run = IdleRun
  /\ lastRun = NoRun /\ db = NoTxn /\ observed = {} /\ watch = NoWatch
  /\ probe = NoProbe /\ md = NoRender /\ proc = NoProc
  /\ all_sessions = MapSeq(list_conversations_for_workspace(OneConversation, SessionsLimit, 0),
                           SessionInfo)
  /\ ui \in ScrollStates
NextScroll == ScrollCall
SpecScroll == InitScroll /\ [][NextScroll]_vars

(***************************************************************************)
(* Connector::scan as a function of the data root: the root is whatever    *)
(* the agent's application, the user or a sync tool left there, so a       *)
(* message may carry any role, any timestamp or none, in any order, and    *)
(* the session any start and end.  id is the message's position in the     *)
(* source, which is also its only word of text.                            *)
(***************************************************************************)
Stamps == {None} \cup {Some(k) : k \in 1..MaxClock}
SourceRoles == {"user", "system"}

SrcText(id, blank) == IF blank THEN <<" ">> ELSE Word(id)
SrcAny(a, id, role, stamp, blank) ==
  CASE a = "opencode" ->
         SrcMsg(id, role, IF IsSome(stamp) THEN Some(Get(stamp) * MsPerSec) ELSE None,
           OcBody(<<OcPart(1, "text", Some(SrcText(id, blank)))>>, None, TRUE))
    [] a = "chatgpt" ->
         SrcMsg(id, role, IF IsSome(stamp) THEN RawSec(Get(stamp)) ELSE None,
           CgBody("parts", <<SrcText(id, blank)>>, <<>>))
    [] a = "gemini" ->
         SrcMsg(id, role, IF IsSome(stamp) THEN RawMs(Get(stamp)) ELSE None,
           GmStr(SrcText(id, blank)))
    [] a = "codebuff" ->
         SrcMsg(id, IF role = "user" THEN "human" ELSE role,
           IF IsSome(stamp) THEN RawMs(Get(stamp)) ELSE None,
           CbBody(Some(SrcText(id, blank)), <<>>))
\* an entry of the ChatGPT `messages` array
SrcFlat(id, role, stamp, blank) ==
  SrcMsg(id, role, IF IsSome(stamp) THEN RawMs(Get(stamp)) ELSE None,
    CgBody("text", <<>>, SrcText(id, blank)))

\* the session-level timestamps a format can carry
SessionStamp(a, stamp) ==
  CASE a = "opencode" -> IF IsSome(stamp) THEN Some(Get(stamp) * MsPerSec) ELSE None
    [] a = "gemini" -> IF IsSome(stamp) THEN RawMs(Get(stamp)) ELSE None
    [] OTHER -> None
SessionStamps(a) == IF a \in {"opencode", "gemini"} THEN Stamps ELSE {None}

\* the sequences of 0..n choices
RECURSIVE ChoiceSeqs(_, _)
ChoiceSeqs(n, choices) ==
  IF n = 0 THEN {<<>>}
  ELSE LET shorter == ChoiceSeqs(n - 1, choices)
       IN shorter \cup {Append(s, ch) : s \in {t \in shorter : Len(t) = n - 1}, ch \in choices}
\* one message per choice, its id being its position
Numbered(cs, Make(_, _)) == IF cs = <<>> THEN <<>> ELSE [i \in 1..Len(cs) |-> Make(i, cs[i])]

SourceFile(a, start, end, msgs, flat) ==
  [NewFile(1, "e1", MaxClock, [to |-> "msgs", ms |-> msgs]) EXCEPT
     !.t_start = SessionStamp(a, start), !.t_end = SessionStamp(a, end), !.flat = flat]

\* one session whose messages differ in their timestamps only
TimedSources(a) ==
  {<<SourceFile(a, start, end, msgs, <<>>)>> :
     start \in SessionStamps(a), end \in SessionStamps(a),
     msgs \in {Numbered(cs, LAMBDA id, st : SrcAny(a, id, "user", st, FALSE)) :
                 cs \in ChoiceSeqs(MaxMsgs, Stamps)}}
\* the same in the ChatGPT `messages` array
FlatSources(a) ==
  IF a # "chatgpt" THEN {}
  ELSE {<<SourceFile(a, None, None, <<>>, flat)>> :
          flat \in {Numbered(cs, LAMBDA id, st : SrcFlat(id, "user", st, FALSE)) :
                      cs \in ChoiceSeqs(MaxMsgs, Stamps)}}

\* one session whose messages differ in role and text, each of them in the
\* ChatGPT mapping or in its `messages` array
RoleChoices(a) ==
  [role : SourceRoles, blank : BOOLEAN, stamp : {None, Some(1)},
   to : IF a = "chatgpt" THEN {"msgs", "flat"} ELSE {"msgs"}]
RoleSource(a, cs) ==
  LET all == Numbered(cs, LAMBDA id, ch :
               [to |-> ch.to,
                m |-> IF ch.to = "flat" THEN SrcFlat(id, ch.role, ch.stamp, ch.blank)
                      ELSE SrcAny(a, id, ch.role, ch.stamp, ch.blank)])
      in(to) == MapSeq(SelectSeq(all, LAMBDA x : x.to = to), LAMBDA x : x.m)
  IN <<SourceFile(a, None, None, in("msgs"), in("flat"))>>
RoleSources(a) == {RoleSource(a, cs) : cs \in ChoiceSeqs(MaxMsgs, RoleChoices(a))}

\* the directories a ChatGPT base directory may hold, each file in one of
\* them, a conversation or a blob that does not parse
StoreDirs ==
  {PlainDir, <<"conversations", "-", "v2", "-", "x">>, <<"conversations", "-", "v3", "-", "x">>,
   <<"conversations", "-", "x", "-", "v2">>, <<"backup", "-", "v2", "-", "x">>}
DirChoices == [dir : StoreDirs, st : {"ok", "malformed"}]
DirFile(id, ch) ==
  [NewFile(id, ToString(id), MaxClock,
           [to |-> "msgs", ms |-> <<SrcAny("chatgpt", id, "user", Some(1), FALSE)>>])
     EXCEPT !.dir = ch.dir, !.st = ch.st]
DirSources(a) ==
  IF a # "chatgpt" THEN {}
  ELSE {Numbered(cs, DirFile) : cs \in ChoiceSeqs(MaxFiles, DirChoices)} \ {<<>>}

\* tool outputs around the byte budgets, the last ones with a character of
\* 2, 3 or 4 bytes across the 1,000th byte
Rep(ch, n) == [i \in 1..n |-> ch]
ToolOutputs ==
  {Rep("a", n) : n \in {1, OutMax - 1, OutMax, CbOutMax, CbOutMax + 1}}
    \cup {Rep("a", CbOutMax - 1) \o <<wide, "a">> : wide \in {"U+00E9", "U+20AC", "U+1F600"}}
ToolMsg(a, id, output) ==
  IF a = "opencode"
    THEN SrcMsg(id, "assistant", Some(MsPerSec),
           OcBody(<<[OcPart(1, "tool", None) EXCEPT
                      !.tool = Some(<<"bash">>),
                      !.state = Some([title |-> None, input |-> None, output |-> Some(output)])]>>,
                  None, TRUE))
    ELSE SrcMsg(id, "ai", RawMs(1),
           CbBody(None, <<[CbBlock("tool", None) EXCEPT
                            !.toolName = Some(<<"bash">>),
                            !.input = Some([command |-> Some(Word(id)), path |-> None]),
                            !.output = Some(output)]>>))
\* commands around the 100-byte cut, the last ones with a character of 2, 3
\* or 4 bytes across the 100th byte
ToolCommands ==
  {Rep("a", n) : n \in {1, CmdMax, CmdMax + 1}}
    \cup {Rep("a", CmdMax - 1) \o <<wide, "a">> : wide \in {"U+00E9", "U+20AC", "U+1F600"}}
    \cup {Rep("a", CmdMax - 2) \o <<"U+00E9", "a">>}
CmdMsg(id, cmd) ==
  SrcMsg(id, "assistant", Some(MsPerSec),
    OcBody(<<[OcPart(1, "tool", None) EXCEPT
               !.tool = Some(<<"bash">>),
               !.state = Some([title |-> None,
                               input |-> Some([description |-> None, filePath |-> None,
                                               command |-> Some(cmd)]),
                               output |-> None])]>>,
           None, TRUE))
ToolSources(a) ==
  IF a \notin {"opencode", "codebuff"} THEN {}
  ELSE {<<SourceFile(a, None, None, <<ToolMsg(a, 1, output)>>, <<>>)>> : output \in ToolOutputs}
         \cup (IF a = "opencode"
                 THEN {<<SourceFile(a, None, None, <<CmdMsg(1, cmd)>>, <<>>)>> : cmd \in ToolCommands}
                 ELSE {})

SourceTrees(a) ==
  TimedSources(a) \cup FlatSources(a) \cup RoleSources(a) \cup DirSources(a) \cup ToolSources(a)

ParseCall == \E since \in SinceVals : ScanDirect(since)

(***************************************************************************)
(* Connector::detect.  The data root of the model is the agent's           *)
(* well-known root; ops is what the call asks the filesystem: stat of one  *)
(* path (exists, is_dir) or the listing of a directory (read_dir).         *)
(***************************************************************************)
Stat(path) == [kind |-> "stat", path |-> path]
ReadDir(path) == [kind |-> "read_dir", path |-> path]
Child(path, name) == path \o <<"/">> \o name
DetectionResult(detected, ops) == [done |-> TRUE, detected |-> detected, ops |-> ops]

app_support_dir(os) ==
  IF os = "macos" THEN Some(<<"~/Library/Application Support/com.openai.chat">>) ELSE None
dir_candidates ==
  <<<<"~/.local/share/opencode/storage">>, <<"$data_dir/opencode/storage">>,
    <<"~/.opencode/storage">>>>
GeminiRoot == <<"~/.gemini/tmp">>
candidate_roots == <<<<"~/.config/manicode/projects">>>>
\* the paths detect is meant to look at
WellKnown(a) ==
  CASE a = "opencode" ->
         UNION {{c, Child(c, <<"session">>), Child(c, <<"message">>), Child(c, <<"part">>)} :
                  c \in Range(dir_candidates)}
    [] a = "chatgpt" -> {Get(app_support_dir("macos"))}
    [] a = "gemini" -> {GeminiRoot}
    [] a = "codebuff" -> Range(candidate_roots)

\* the first candidate is the storage root of the model and holds session/,
\* message/ and part/; find stops there
OcDetect(fs) ==
  LET root == dir_candidates[1]
  IN DetectionResult(TRUE,
       {Stat(root), Stat(Child(root, <<"session">>)), Stat(Child(root, <<"message">>)),
        Stat(Child(root, <<"part">>))})
\* base.exists(), then find_conversation_dirs: read_dir(base) and is_dir of
\* every entry
CgDetect(fs, os) ==
  IF ~IsSome(app_support_dir(os)) THEN DetectionResult(FALSE, {})
  ELSE LET base == Get(app_support_dir(os))
           entries == Range(DirNames(fs))
       IN DetectionResult(find_conversation_dirs(fs) # <<>>,
            {Stat(base), ReadDir(base)} \cup {Stat(Child(base, name)) : name \in entries})
GmDetect(fs) == DetectionResult(TRUE, {Stat(GeminiRoot)})
CbDetect(fs) == DetectionResult(TRUE, {Stat(r) : r \in Range(candidate_roots)})
detect(a, fs, os) ==
  CASE a = "opencode" -> OcDetect(fs)
    [] a = "chatgpt" -> CgDetect(fs, os)
    [] a = "gemini" -> GmDetect(fs)
    [] a = "codebuff" -> CbDetect(fs)

DetectCall ==
  /\ \E os \in {"macos", "linux"} : probe' = [detect(agent, files, os) EXCEPT !.done = TRUE]
  /\ UNCHANGED <<fsVars, scanVars, pipeVars, dbVars, watch, ui, md, proc>>

InitParse ==
  /\ agent \in Agents
  /\ clock = MaxClock
  /\ files \in SourceTrees(agent)
  /\ scanOut = NoScan
  /\ fullScan = NoScan
  /\ store = <<>>
  /\ index = {}
  /\ watermark = None
  /\ run = IdleRun
  /\ lastRun = NoRun
  /\ db = NoTxn
  /\ all_sessions = <<>>
  /\ observed = {}
  /\ watch = NoWatch
  /\ probe = NoProbe
  /\ ui = NoUi
  /\ md = NoRender
  /\ proc = NoProc
NextParse == ParseCall \/ DetectCall
SpecParse == InitParse /\ [][NextParse]_vars

(***************************************************************************)
(* The process (main.rs).  main awaits run() and, when it fails, prints    *)
(* one JSON value on stderr and exits with the error's code.  A JSON       *)
(* object is a record; stderr is the sequence of the values printed.       *)
(***************************************************************************)
Commands == {"tui", "index", "completions", "man"}
CliErrors ==
  [code : 1..9, kind : {"usage", "io", "index"}, message : {<<"m">>},
   hint : {None, Some(<<"h">>)}, retryable : BOOLEAN]
\* the value main builds of the error
ErrorPayload(err) ==
  [error |-> [code |-> err.code, kind |-> err.kind, message |-> err.message,
              hint |-> err.hint, retryable |-> err.retryable]]

MainStart ==
  /\ proc = NoProc
  /\ \E command \in Commands :
       proc' = [pc |-> "run", command |-> command, stderr |-> <<>>]
  /\ UNCHANGED <<fsVars, scanVars, pipeVars, dbVars, watch, probe, ui, md>>
\* Ok(()) => Ok(())
RunOk ==
  /\ proc.pc = "run"
  /\ proc' = [proc EXCEPT !.pc = "exited"] @@ [failed |-> FALSE, exit |-> 0]
  /\ UNCHANGED <<fsVars, scanVars, pipeVars, dbVars, watch, probe, ui, md>>
\* Err(err) => eprintln!("{}", payload); std::process::exit(err.code)
RunErr ==
  /\ proc.pc = "run"
  /\ \E err \in CliErrors :
       proc' = [proc EXCEPT !.pc = "exited", !.stderr = Append(@, ErrorPayload(err))]
                 @@ [failed |-> TRUE, exit |-> err.code, err |-> err]
  /\ UNCHANGED <<fsVars, scanVars, pipeVars, dbVars, watch, probe, ui, md>>

NextMain == MainStart \/ RunOk \/ RunErr
SpecMain == Init /\ [][NextMain]_vars

(***************************************************************************)
(* render_inline_markdown_line (ui/components/message_render.rs).  A line  *)
(* is a sequence of characters; md.rest is what the loop has not consumed  *)
(* yet, md.spans what it has emitted.  Offsets count characters: the       *)
(* markers are one byte wide, so every offset the code computes lies on a  *)
(* character boundary.                                                     *)
(***************************************************************************)
\* "tick" is the backtick
MdChars == {"*", "tick", "a"}
RECURSIVE LinesOf(_)
LinesOf(n) ==
  IF n = 0 THEN {<<>>}
  ELSE LinesOf(n - 1) \cup {Append(l, ch) : l \in {k \in LinesOf(n - 1) : Len(k) = n - 1}, ch \in MdChars}
Drop(str, n) == SubSeq(str, n + 1, Len(str))
\* str::find: the offset of the first occurrence
Find(str, pat) ==
  LET hits == {i \in 0..Len(str) : StartsWith(Drop(str, i), pat)}
  IN IF hits = {} \/ pat = <<>> THEN None ELSE Some(CHOOSE i \in hits : \A j \in hits : i <= j)
FindSpecial(str) ==
  LET hits == {i \in 0..(Len(str) - 1) : str[i + 1] \in {"*", "tick"}}
  IN IF hits = {} THEN None ELSE Some(CHOOSE i \in hits : \A j \in hits : i <= j)
RECURSIVE trim_start_stars(_)
trim_start_stars(str) ==
  IF str # <<>> /\ Head(str) = "*" THEN trim_start_stars(Tail(str)) ELSE str
Span(style, text) == [style |-> style, text |-> text]
Consumed(rest, span) == [rest |-> rest, span |-> span]

\* the plain chunk without the test of next_special == 0
PlainChunkUnguarded(rest) ==
  LET next_special == UnwrapOr(FindSpecial(rest), Len(rest))
  IN Consumed(Drop(rest, next_special), Span("base", SubSeq(rest, 1, next_special)))
\* plain chunk until the next special token; a stray marker is emitted
\* literally
PlainChunk(rest) ==
  LET next_special == UnwrapOr(FindSpecial(rest), Len(rest))
  IN IF next_special = 0 THEN Consumed(Tail(rest), Span("base", <<Head(rest)>>))
     ELSE Consumed(Drop(rest, next_special), Span("base", SubSeq(rest, 1, next_special)))

\* one iteration of `while !rest.is_empty()`
MdIteration(rest) ==
  LET bold == Drop(rest, 2)
      one == Drop(rest, 1)
  IN IF StartsWith(rest, <<"*", "*">>) /\ IsSome(Find(bold, <<"*", "*">>))
       THEN LET end == Get(Find(bold, <<"*", "*">>))
            IN Consumed(trim_start_stars(Drop(bold, end)), Span("bold", SubSeq(bold, 1, end)))
     ELSE IF StartsWith(rest, <<"tick">>) /\ IsSome(Find(one, <<"tick">>))
       THEN LET end == Get(Find(one, <<"tick">>))
            IN Consumed(Drop(Drop(one, end), 1), Span("code", SubSeq(one, 1, end)))
     ELSE IF StartsWith(rest, <<"*">>) /\ ~StartsWith(one, <<"*">>) /\ IsSome(Find(one, <<"*">>))
       THEN LET end == Get(Find(one, <<"*">>))
            IN Consumed(trim_start_stars(Drop(one, end)), Span("italic", SubSeq(one, 1, end)))
     ELSE PlainChunk(rest)

RenderStart ==
  /\ ~md.open
  /\ \E line \in LinesOf(MaxLine) :
       md' = [open |-> TRUE, line |-> line, rest |-> line, spans |-> <<>>]
  /\ UNCHANGED <<fsVars, scanVars, pipeVars, dbVars, watch, probe, ui, proc>>
RenderIteration ==
  /\ md.open /\ md.rest # <<>>
  /\ LET it == MdIteration(md.rest)
     IN md' = [md EXCEPT !.rest = it.rest, !.spans = Append(@, it.span)]
  /\ UNCHANGED <<fsVars, scanVars, pipeVars, dbVars, watch, probe, ui, proc>>
\* Line::from(spans): the call returns and the next line is rendered
RenderReturn ==
  /\ md.open /\ md.rest = <<>>
  /\ md' = NoRender
  /\ UNCHANGED <<fsVars, scanVars, pipeVars, dbVars, watch, probe, ui, proc>>

NextRender == RenderStart \/ RenderIteration \/ RenderReturn
\* the loop is straight-line code: an iteration that can run does run
SpecRender == Init /\ [][NextRender]_vars /\ WF_vars(RenderIteration)

(***************************************************************************)
(* Watch mode.  After the initial pass the orchestrator subscribes to each *)
(* connector's root; a notification opens a debounce window, the loop      *)
(* sleeps through it while further notifications queue up, and the agents  *)
(* of the batch are re-scanned one after the other.  changes is the        *)
(* history of the writes under the roots: each is pending until a re-scan  *)
(* of its agent starts, covered while that re-scan runs, then done.        *)
(***************************************************************************)
DebounceMs == 500
SleepSlice == DebounceMs \div 2
Mark(changes, a, from, to) ==
  [k \in 1..Len(changes) |->
     IF changes[k].agent = a /\ changes[k].st = from THEN [changes[k] EXCEPT !.st = to]
     ELSE changes[k]]
ChangesOf(a) == {k \in 1..Len(watch.changes) : watch.changes[k].agent = a}

\* a write under the root of agent a; the notification is queued
FsChange(a) ==
  /\ clock < MaxClock
  /\ clock' = clock + 1
  /\ watch' = [watch EXCEPT !.events = @ \cup {a},
                            !.changes = Append(@, [agent |-> a, st |-> "pending"])]
  /\ UNCHANGED <<agent, files, scanVars, pipeVars, dbVars, frontVars>>
FsChangeAny == \E a \in Agents : FsChange(a)

\* the loop blocks on the channel; the first notification opens the window
WatchWake ==
  /\ watch.phase = "idle"
  /\ \E a \in watch.events :
       watch' = [watch EXCEPT !.phase = "debounce", !.events = @ \ {a}, !.batch = {a},
                              !.slept = 0]
  /\ UNCHANGED <<fsVars, scanVars, pipeVars, dbVars, frontVars>>
\* a notification that arrives during the window joins the batch
WatchCollect ==
  /\ watch.phase = "debounce"
  /\ \E a \in watch.events :
       watch' = [watch EXCEPT !.events = @ \ {a}, !.batch = @ \cup {a}]
  /\ UNCHANGED <<fsVars, scanVars, pipeVars, dbVars, frontVars>>
WatchSleep ==
  /\ watch.phase = "debounce"
  /\ watch.slept < DebounceMs
  /\ watch' = [watch EXCEPT !.slept = @ + SleepSlice]
  /\ UNCHANGED <<fsVars, scanVars, pipeVars, dbVars, frontVars>>
\* a window that closes and forgets the notifications still queued
DebounceElapsedDropping ==
  /\ watch.phase = "debounce"
  /\ watch.slept >= DebounceMs
  /\ watch' = [watch EXCEPT !.phase = "scan", !.todo = watch.batch, !.batch = {},
                            !.events = {}]
  /\ UNCHANGED <<fsVars, scanVars, pipeVars, dbVars, frontVars>>
\* the window has lasted DebounceMs: the batch goes to the re-scan, what is
\* still queued waits for the next window
DebounceElapsed ==
  /\ watch.phase = "debounce"
  /\ watch.slept >= DebounceMs
  /\ watch' = [watch EXCEPT !.phase = "scan", !.todo = watch.batch, !.batch = {}]
  /\ UNCHANGED <<fsVars, scanVars, pipeVars, dbVars, frontVars>>
\* the re-scan of one agent of the batch
RescanStart ==
  /\ watch.phase = "scan" /\ watch.cur = "none"
  /\ \E a \in watch.todo :
       watch' = [watch EXCEPT !.cur = a, !.todo = @ \ {a},
                              !.changes = Mark(@, a, "pending", "covered"),
                              !.started[a] = @ + 1]
  /\ UNCHANGED <<fsVars, scanVars, pipeVars, dbVars, frontVars>>
RescanDone ==
  /\ watch.phase = "scan" /\ watch.cur # "none"
  /\ watch' = [watch EXCEPT !.cur = "none",
                            !.changes = Mark(@, watch.cur, "covered", "done"),
                            !.phase = IF watch.todo = {} THEN "idle" ELSE "scan"]
  /\ UNCHANGED <<fsVars, scanVars, pipeVars, dbVars, frontVars>>

WatchLoop == WatchWake \/ WatchCollect \/ WatchSleep \/ DebounceElapsed \/ RescanStart \/ RescanDone
NextWatch == FsChangeAny \/ WatchLoop
\* the loop is a thread of its own: a sleep ends and a re-scan returns; nothing
\* obliges the agents' applications to write
SpecWatch == Init /\ [][NextWatch]_vars /\ WF_vars(WatchLoop)

(***************************************************************************)
(* Claims about what a scan emits from any source, checked under           *)
(* SpecParse.                                                              *)
(***************************************************************************)
Emitted == Range(scanOut.res.convs)
BothDated(m1, m2) == IsSome(m1.created_at) /\ IsSome(m2.created_at)

\* C11: in every emitted conversation, any two messages i < j that both have
\* created_at satisfy created_at[i] <= created_at[j].
C11_OrderedByCreatedAt ==
  scanOut.done =>
    \A c \in Emitted :
      \A i, j \in 1..Len(c.messages) :
        (i < j /\ BothDated(c.messages[i], c.messages[j]))
          => Get(c.messages[i].created_at) <= Get(c.messages[j].created_at)

\* C12: every emitted conversation that has both started_at and ended_at
\* satisfies started_at <= ended_at, whatever timestamps the source carries.
C12_StartedBeforeEnded ==
  scanOut.done =>
    \A c \in Emitted :
      (IsSome(c.started_at) /\ IsSome(c.ended_at))
        => Get(c.started_at) <= Get(c.ended_at)

\* C13: no connector emits a message whose role is `system`.
C13_NoSystemRole ==
  scanOut.done => \A c \in Emitted : \A m \in Range(c.messages) : m.role # "system"

\* C17: an OpenCode scan with since_ts = S emits only messages whose created_at
\* is present and strictly greater than S, and emits no session without such a
\* message.
C17_OpenCodeSince ==
  (agent = "opencode" /\ scanOut.done /\ IsSome(scanOut.since)) =>
    \A c \in Emitted :
      /\ c.messages # <<>>
      /\ \A m \in Range(c.messages) :
           IsSome(m.created_at) /\ Get(m.created_at) > Get(scanOut.since)

\* a scan with since_ts = S of a session that holds a message dated at or
\* before S, or undated, and a later one: the session is emitted without the
\* former
C17_Witness ==
  /\ agent = "opencode" /\ scanOut.done /\ IsSome(scanOut.since)
  /\ \E c \in Emitted : Len(c.messages) < Len(files[c.source_path].msgs)
  /\ \E m \in Range(files[1].msgs) : m.ts = Some(Get(scanOut.since))

\* C18: from a ChatGPT file whose mapping is not empty, every emitted message
\* is a message of the mapping; the `messages` array is not used, also when
\* every message of the mapping is dropped.
C18_MappingPreferred ==
  (agent = "chatgpt" /\ scanOut.done) =>
    \A c \in Emitted :
      FileAt(c.source_path).msgs # <<>> =>
        \A m \in Range(c.messages) :
          m.extra \in {x.id : x \in Range(FileAt(c.source_path).msgs)}

\* a directory of an encrypted store: conversations-...-v2-... or ...-v3-...
EncryptedStore(name) ==
  /\ Len(name) >= 2 /\ name[1] = "conversations" /\ name[2] = "-"
  /\ \E i \in 2..(Len(name) - 1) :
       name[i - 1] = "-" /\ name[i] \in {"v2", "v3"} /\ name[i + 1] = "-"

\* C19: the ChatGPT scan emits no conversation whose source_path lies under a
\* directory of an encrypted store, and returns what it returns for the root
\* without those directories.
C19_EncryptedSkipped ==
  (agent = "chatgpt" /\ scanOut.done) =>
    /\ \A c \in Emitted : ~EncryptedStore(FileAt(c.source_path).dir)
    /\ scanOut.res = Scan(agent, SelectSeq(files, LAMBDA f : ~EncryptedStore(f.dir)),
                          scanOut.since)

\* a scan of a root that holds a conversation file in an encrypted store's
\* directory next to one in a plain directory, and emits the latter
C19_Witness ==
  /\ agent = "chatgpt" /\ scanOut.done /\ Emitted # {}
  /\ \E f \in Range(files) :
       EncryptedStore(f.dir) /\ f.st = "ok" /\ file_modified_since(f, scanOut.since)

\* the outputs of the tool calls of a source message
SrcToolOutputs(a, m) ==
  CASE a = "opencode" ->
         {Get(Get(p.state).output) :
            p \in {q \in Range(m.c.parts) :
                     q.type = "tool" /\ IsSome(q.state) /\ IsSome(Get(q.state).output)}}
    [] a = "codebuff" ->
         {Get(b.output) : b \in {q \in Range(m.c.blocks) : q.type = "tool" /\ IsSome(q.output)}}
    [] OTHER -> {}

\* the longest prefix of whole characters of output within the byte budget
BudgetPrefix(output, budget) ==
  LET wide == WideAt(output)
  IN SubSeq(output, 1,
       CHOOSE k \in 0..Len(output) :
         /\ PrefixBytes(output, wide, k) <= budget
         /\ k < Len(output) => PrefixBytes(output, wide, k + 1) > budget)

\* C20: the content of an emitted message holds, for every tool output of its
\* source message, the longest prefix of whole characters of that output within
\* 1,000 bytes: a long output is cut at a character boundary, never dropped.
C20_ToolOutputPrefix ==
  scanOut.done =>
    \A c \in Emitted : \A m \in Range(c.messages) :
      \A src \in {x \in Range(FileAt(c.source_path).msgs) : x.id = m.extra} :
        \A output \in SrcToolOutputs(agent, src) :
          LET kept == BudgetPrefix(output, CbOutMax)
          IN /\ Contains(m.content, kept)
             /\ Len(kept) < Len(output)
                  => ~Contains(m.content, SubSeq(output, 1, Len(kept) + 1))

\* the commands of the tool parts the scan assembled content from
SrcCommands ==
  UNION {{Get(CommandOf(p)) : p \in {q \in Range(m.c.parts) : IsSome(CommandOf(q))}} :
           m \in UNION {Range(f.msgs) : f \in Range(files)}}
\* C30: OpenCode content assembly never fails on valid text: the scan of a
\* tool part with a command of any length returns, and the shortened command
\* in the content is a prefix of whole characters of the command.
C30_AssembleNeverFails ==
  (scanOut.done /\ agent = "opencode") =>
    /\ ~scanOut.res.panicked
    /\ \A c \in Emitted : \A m \in Range(c.messages) : \A cmd \in SrcCommands :
         ByteLen(cmd) > CmdMax =>
           Contains(m.content, BudgetPrefix(cmd, CmdMax) \o <<"...">>)

\* C21: detect of every connector is stat-only: every filesystem operation of
\* the call is the stat of one of the connector's well-known paths, none is
\* the listing of a directory, and no entry beside those paths is touched.
C21_DetectStatOnly ==
  probe.done => \A op \in probe.ops : op.kind = "stat" /\ op.path \in WellKnown(agent)

(***************************************************************************)
(* Claims about the process, checked under SpecMain.                       *)
(***************************************************************************)
ErrorFields == {"code", "kind", "message", "hint", "retryable"}
\* C23: when run() fails the process prints exactly one JSON object on stderr
\* whose top-level fields are code, kind, message, hint and retryable, and
\* exits with that non-zero code; when run() succeeds it exits with 0 and
\* prints nothing on stderr.
C23_OneErrorObject ==
  proc.pc = "exited" =>
    IF proc.failed
      THEN /\ Len(proc.stderr) = 1
           /\ DOMAIN proc.stderr[1] = ErrorFields
           /\ proc.stderr[1].code = proc.exit
           /\ proc.exit # 0
      ELSE proc.exit = 0 /\ proc.stderr = <<>>

(***************************************************************************)
(* Claims about the sessions TUI.                                          *)
(***************************************************************************)
\* the handler of the event (key, mods) ran in this step, in list view with
\* the focus on Search
SearchHandled(key, mods) ==
  /\ ui.open /\ ui.view_mode = "List" /\ ui.focus = "Search"
  /\ \E height \in TermHeights : KeyEvent(key, mods, height)

\* C26: in list view with the focus on Search, a character key pressed with no
\* modifier or with Shift appends that character to search_query and re-applies
\* the filter; no printable character is consumed by another action.
C26_Step ==
  \A c \in TypedChars, mods \in {"NONE", "SHIFT"} :
    SearchHandled(Char(c), mods) =>
      /\ ui'.open
      /\ ui'.search_query = Append(ui.search_query, c)
      /\ ui' = apply_filter([ui EXCEPT !.search_query = Append(@, c)], all_sessions)
      /\ all_sessions' = all_sessions
C26_TypedCharAppends == [][C26_Step]_vars

\* C22: every read of the front-end (the list at start-up, a refresh, the
\* loading of a conversation) opens the database read-only: the TUI holds no
\* writer connection and opens none.
C22_ReadOnlyReads ==
  ui.open => ui.storage.mode = "read_only" /\ ui.conn.mode = "read_only"

\* C25: after any sequence of key events, filter edits and refreshes the
\* selection is valid: every displayed group is non-empty; when a group is
\* displayed, selected_agent indexes a group and selected_session a session of
\* it, so that get_selected_session returns a session; when nothing is
\* displayed, no session is selected.
C25_SelectionValid ==
  ui.open =>
    LET groups == ui.sessions_by_agent
    IN /\ \A g \in 1..Len(groups) : groups[g].sessions # <<>>
       /\ groups # <<>> =>
            /\ ui.selected_agent \in 0..(Len(groups) - 1)
            /\ IsSome(ui.selected_session)
            /\ Get(ui.selected_session) \in 0..(Len(groups[ui.selected_agent + 1].sessions) - 1)
            /\ IsSome(get_selected_session(ui))
            /\ Get(get_selected_session(ui)) \in Range(all_sessions)
       /\ groups = <<>> => ui.selected_session = None /\ get_selected_session(ui) = None
\* after a refresh under a filter, the second session of a group is selected
C25_Witness ==
  /\ ui.open /\ ui.conn.by = "refresh_sessions" /\ ui.search_query # <<>>
  /\ ui.sessions_by_agent # <<>>
  /\ Len(ui.sessions_by_agent[1].sessions) = 2
  /\ ui.selected_session = Some(1)

\* a before b in "newest first, undated last": a dated session before an
\* undated one, and a later start before an earlier one
NotOlder(a, b) ==
  IsSome(b.started_at) => IsSome(a.started_at) /\ Get(a.started_at) >= Get(b.started_at)
Ordered(sessions) ==
  \A i, j \in 1..Len(sessions) : i < j => NotOlder(sessions[i], sessions[j])

\* C24: the list of the workspace is sorted by started_at descending with the
\* undated conversations last, and inside every agent group the TUI shows the
\* sessions in exactly the order of that list, after grouping, filtering and
\* refreshing.
C24_NewestFirst ==
  ui.open =>
    /\ Ordered(all_sessions)
    /\ \A g \in 1..Len(ui.sessions_by_agent) :
         LET sessions == ui.sessions_by_agent[g].sessions
         IN /\ Ordered(sessions)
            /\ sessions = SelectSeq(all_sessions, LAMBDA x : x \in Range(sessions))
\* after a refresh under a filter, a group shows the conversation stored
\* second before the one stored first, and an undated one can only be last
C24_Witness ==
  /\ ui.open /\ ui.conn.by = "refresh_sessions" /\ ui.search_query # <<>>
  /\ ui.sessions_by_agent # <<>>
  /\ LET sessions == ui.sessions_by_agent[1].sessions
     IN /\ Len(sessions) = 2
        /\ sessions[1].id = 2 /\ sessions[2].id = 1
        /\ sessions[1].started_at # sessions[2].started_at

\* the claim's match: the text contains the query, letter case apart
ContainsCI(text, query) ==
  \E i \in 0..Len(text) :
    /\ i + Len(query) <= Len(text)
    /\ \A k \in 1..Len(query) : Lower(text[i + k]) = Lower(query[k])
\* the start dates of the model's conversations, as YYYY-MM-DD
StartDate(ts) ==
  IF ts < 86400 * MsPerSec THEN <<"1", "9", "7", "0", "-", "0", "1", "-", "0", "1">>
  ELSE <<"1", "9", "7", "0", "-", "0", "1", "-", "0", "2">>
Wanted(session, query) ==
  \/ query = <<>>
  \/ IsSome(session.title) /\ ContainsCI(Get(session.title), query)
  \/ ContainsCI(SlugText(session.agent_slug), query)
  \/ IsSome(session.started_at) /\ ContainsCI(StartDate(Get(session.started_at)), query)
\* how many times the groups of `agent` show the session
Shown(session, slug) ==
  Cardinality({<<g, i>> \in (1..Len(ui.sessions_by_agent)) \X (1..Len(all_sessions)) :
                 /\ ui.sessions_by_agent[g].agent = slug
                 /\ i <= Len(ui.sessions_by_agent[g].sessions)
                 /\ ui.sessions_by_agent[g].sessions[i] = session})
C27_Displayed ==
  ui.open =>
    /\ \A g \in 1..Len(ui.sessions_by_agent) :
         Range(ui.sessions_by_agent[g].sessions) \subseteq Range(all_sessions)
    /\ \A x \in Range(all_sessions), slug \in Agents :
         Shown(x, slug) = IF slug = x.agent_slug /\ Wanted(x, ui.search_query) THEN 1 ELSE 0
\* an edit of the query re-applies the filter and leaves all_sessions alone
C27_Frame ==
  ui.open /\ ui'.open /\ ui'.search_query # ui.search_query =>
    /\ all_sessions' = all_sessions
    /\ ui' = apply_filter([ui EXCEPT !.search_query = ui'.search_query], all_sessions)
C28_ScrollClamped ==
  ui.open /\ IsSome(ui.call) =>
    LET call == Get(ui.call)
        sum == call.from + call.delta
    IN IF ui.view_mode = "Detail"
         THEN ui.detail_scroll = IF sum < 0 THEN 0
                                 ELSE IF sum > call.max_scroll THEN call.max_scroll ELSE sum
         ELSE ui.detail_scroll = call.from

(***************************************************************************)
(* Claims about the renderer, checked under SpecRender.                    *)
(***************************************************************************)
IsSuffix(str, of) == Len(str) <= Len(of) /\ Drop(of, Len(of) - Len(str)) = str
Consumes ==
  (md.open /\ md'.open) =>
    /\ Len(md'.rest) < Len(md.rest)
    /\ IsSuffix(md'.rest, md.rest)
\* C29: render_inline_markdown_line terminates on every line: every iteration
\* of the loop leaves a proper suffix of the text it started from, and the
\* loop reaches the end of the line, also with stray or unbalanced `*`, `**`
\* and backtick markers.
C29_RenderTerminates ==
  /\ [][Consumes]_vars
  /\ md.open ~> (md.open /\ md.rest = <<>>)
C29_Witness ==
  /\ md.open /\ md.rest = <<>>
  /\ md.line = <<"*", "*", "a", "tick">>
  /\ Len(md.spans) = 4

(***************************************************************************)
(* Claims about what a scan emits, checked under SpecScan.                 *)
(***************************************************************************)
DenseIdx(msgs) == \A i \in 1..Len(msgs) : msgs[i].idx = i - 1

\* C4: in every conversation a scan emits, and in every row of the store, the
\* message idx values are exactly 0..n-1 in order, with no gap and no duplicate.
C4_IdxDense ==
  /\ scanOut.done => \A c \in Emitted : DenseIdx(c.messages)
  /\ \A i \in 1..Len(store) : DenseIdx(store[i].messages)

\* C5: a full scan and a later scan of the same unchanged source, whatever its
\* since_ts, give every message they both emit the same idx.
C5_IdxStable ==
  (scanOut.done /\ fullScan.done) =>
    \A c1 \in Range(fullScan.res.convs), c2 \in Emitted :
      c1.source_path = c2.source_path =>
        \A m1 \in Range(c1.messages), m2 \in Range(c2.messages) :
          m1.extra = m2.extra => m1.idx = m2.idx

\* C8: a scan with since_ts = W reads, parses and emits nothing from a file
\* whose mtime is <= W.
C8_OldFilesSkipped ==
  scanOut.done =>
    \A f \in Range(files) :
      (f.path \in scanOut.res.parsed \/ \E c \in Emitted : c.source_path = f.path)
        => file_modified_since(f, scanOut.since)

\* C9: a scan returns Ok whatever file fails to read or parse, and still emits
\* the conversation of every valid file.
C9_ScanNeverAborts ==
  scanOut.done =>
    /\ scanOut.res.ok
    /\ \A f \in Range(files) :
         (/\ f.st = "ok"
          /\ \A g \in Range(files) : g.ext = f.ext => g = f
          /\ Scan(agent, <<f>>, scanOut.since).convs # <<>>)
           => \E c \in Emitted : c.source_path = f.path

\* C10: every message a scan emits has non-empty content.
C10_ContentNonEmpty ==
  scanOut.done => \A c \in Emitted : \A m \in Range(c.messages) : m.content # <<>>

(***************************************************************************)
(* Claims about runs of the indexer, checked under Spec.                   *)
(***************************************************************************)
RunEnded == run = IdleRun /\ lastRun.kind # "none"
MostRecent(ext) ==
  CHOOSE f \in Range(files) :
    f.ext = ext /\ \A g \in Range(files) : g.ext = ext => g.mtime <= f.mtime

\* every file is readable and no two files report the same external_id
DistinctSources == \A f, g \in Range(files) : f.st = "ok" /\ (f.ext = g.ext => f = g)

\* C1: an incremental run that ends a chain of a full index and
\* append-and-reindex cycles leaves every term searchable that was searchable
\* when the run started.
C1_IncrementalPreserves ==
  (/\ RunEnded /\ lastRun.kind = "incremental" /\ lastRun.clean /\ lastRun.cycles
   /\ DistinctSources)
    => lastRun.terms_before \subseteq Terms(index)

FailedToParse == {p \in lastRun.failed : FileAt(p).st = "malformed"}

\* C2: a run in which a file failed to parse, or that was cancelled, leaves the
\* watermark at the value it had when the run started.
C2_WatermarkOnlyCleanRun ==
  (RunEnded /\ (lastRun.cancelled \/ FailedToParse # {}))
    => watermark = lastRun.wm_before

\* C6: a run over source content that has not changed since a clean run, on a
\* store that holds every file's conversation and an index that agrees with
\* it, leaves the rows, their message sets and the number of index documents
\* as they were.
C6_ReindexIdempotent ==
  (/\ RunEnded /\ lastRun.clean /\ lastRun.prev_clean
   /\ lastRun.kind = "incremental"
   /\ lastRun.delta \in {"same", "touched"}
   /\ lastRun.ndocs_before = MessageCount(lastRun.rows_before)
   /\ Len(lastRun.rows_before) = Len(files)
   /\ DistinctSources)
    => /\ Rows(store) = lastRun.rows_before
       /\ Cardinality(index) = lastRun.ndocs_before

\* C7: the store holds at most one conversation per (agent_slug, external_id),
\* and after a clean run over readable files that conversation's source_path
\* is the most recently modified file that reports the external_id.
C7_OnePerExternalId ==
  /\ \A i, j \in 1..Len(store) :
       (/\ IsSome(store[i].external_id)
        /\ store[i].agent_slug = store[j].agent_slug
        /\ store[i].external_id = store[j].external_id) => i = j
  /\ (RunEnded /\ lastRun.clean /\ lastRun.kind = "full" /\ lastRun.src = "same"
      /\ \A f \in Range(files) : f.st = "ok")
       => \A i \in 1..Len(store) :
            IsSome(store[i].external_id)
              => store[i].source_path = MostRecent(Get(store[i].external_id)).path

\* the index holds as many documents of every conversation as the conversation
\* has messages, which is what the reconciliation compares
CountCoherent ==
  \A i \in 1..Len(store) : Cardinality(DocsOf(index, store[i].id)) = Len(store[i].messages)
\* the documents of every conversation are those of its messages
Coherent ==
  \A i \in 1..Len(store) :
    DocsOf(index, store[i].id) = {IndexDocument(store[i].id, m) : m \in Range(store[i].messages)}

AfterCrash == RunEnded /\ lastRun.after_crash /\ ~lastRun.crashed

Observed(w) == {FileAt(c.source_path).mtime : c \in Range(Scan(agent, files, w).convs)}
SetMax(ns) == CHOOSE n \in ns : \A k \in ns : k <= n
Advanced(w, ns) == IF ns = {} THEN w ELSE Some(MaxOf(UnwrapOr(w, 0), SetMax(ns)))
EndsIncremental ==
  /\ Running /\ ~run.full /\ run' = IdleRun
  /\ lastRun'.scan_ok /\ ~lastRun'.cancelled /\ ~lastRun'.crashed
C15_Step ==
  /\ IsSome(watermark) => IsSome(watermark') /\ Get(watermark') >= Get(watermark)
  /\ IsSome(watermark') => \E f \in Range(files') : Get(watermark') <= f.mtime
  /\ IsSome(watermark') => \E i \in 1..Len(store') : Get(watermark') <= store'[i].last_seen_mtime
  /\ EndsIncremental => watermark' = Advanced(watermark, Observed(watermark))
\* C15: the incremental run that succeeds leaves the watermark at the maximum
\* of its previous value and the highest mtime among the source files the run
\* observed; in every step the watermark, once set, stays set and does not
\* decrease, and it never exceeds the mtime of the newest file of the root nor
\* the newest mtime a stored conversation was processed at.
C15_WatermarkAdvances == [][C15_Step]_vars
C15_Witness ==
  /\ RunEnded /\ lastRun.kind = "incremental" /\ lastRun.scan_ok /\ ~lastRun.cancelled
  /\ IsSome(lastRun.wm_before) /\ IsSome(watermark)
  /\ Get(watermark) > Get(lastRun.wm_before)
  /\ \E f \in Range(files) : f.mtime < Get(watermark)

====
